---------------------------- MODULE Spec2Model ----------------------------
(***************************************************************************)
(* State-machine model of the GPU path tracer of GEGPUPathtracerWorkshop:  *)
(* the ray generation, miss and closest-hit shaders of PT.hlsl, with the   *)
(* constant buffer that WinMain fills.                                     *)
(*                                                                         *)
(* Conventions                                                             *)
(*  - A float is an exact rational <<n, d>> (d > 0, lowest terms).  The    *)
(*    pair <<0, 0>> is NonFinite: the result of a division by zero and of  *)
(*    every operation on it (HLSL inf and NaN are not told apart; every    *)
(*    ordered comparison with NonFinite is false, min/max return the other *)
(*    operand).                                                            *)
(*  - A float3 is a sequence of three floats.                              *)
(*  - The geometry (ray directions, hit points, normals) is not computed:  *)
(*    what TraceRay and the dot products answer is an input of the step    *)
(*    that asks, drawn from a small set.                                   *)
(*  - The value returned by rnd is an input too, drawn from Samples; of    *)
(*    the state word payload.rndState the model keeps the number of times  *)
(*    rnd advanced it since the running TraceRay call was issued (draws).  *)
(*  - The model follows the path of one pixel in one dispatch.             *)
(***************************************************************************)
EXTENDS Integers, Sequences, FiniteSets, TLC

(***************************************************************************)
(* Bounds of the model                                                     *)
(***************************************************************************)
\* number of sampler values strictly between 0 and 1
SampleCount == 1
\* number of area lights uploaded by the scene: 0..MaxLights
MaxLights == 1

(***************************************************************************)
(* Exact rational arithmetic standing for float arithmetic                 *)
(***************************************************************************)
Abs(x) == IF x < 0 THEN -x ELSE x

RECURSIVE GCD(_, _)
GCD(a, b) == IF b = 0 THEN a ELSE GCD(b, a % b)

NonFinite == <<0, 0>>

IsFinite(a) == a[2] # 0

Rat(n, d) ==
    IF d = 0 THEN NonFinite
    ELSE LET g == GCD(Abs(n), Abs(d))
             s == IF d < 0 THEN -1 ELSE 1
         IN  <<(s * n) \div g, (s * d) \div g>>

Zero == <<0, 1>>
One == <<1, 1>>

RAdd(a, b) ==
    IF ~IsFinite(a) \/ ~IsFinite(b) THEN NonFinite
    ELSE LET g == GCD(a[2], b[2])
         IN  Rat(a[1] * (b[2] \div g) + b[1] * (a[2] \div g), (a[2] \div g) * b[2])

RNeg(a) == IF IsFinite(a) THEN <<-a[1], a[2]>> ELSE NonFinite

RSub(a, b) == RAdd(a, RNeg(b))

RMul(a, b) ==
    IF ~IsFinite(a) \/ ~IsFinite(b) THEN NonFinite
    ELSE LET g1 == GCD(Abs(a[1]), b[2])
             g2 == GCD(Abs(b[1]), a[2])
         IN  Rat((a[1] \div g1) * (b[1] \div g2), (a[2] \div g2) * (b[2] \div g1))

RDiv(a, b) ==
    IF ~IsFinite(a) \/ ~IsFinite(b) \/ b[1] = 0 THEN NonFinite
    ELSE IF b[1] > 0 THEN RMul(a, <<b[2], b[1]>>)
    ELSE RMul(a, <<-b[2], -b[1]>>)

\* ordered comparisons: false when an operand is not finite
RLess(a, b) == IsFinite(a) /\ IsFinite(b) /\ a[1] * b[2] < b[1] * a[2]
RLeq(a, b) == IsFinite(a) /\ IsFinite(b) /\ a[1] * b[2] <= b[1] * a[2]

RMin(a, b) == IF ~IsFinite(a) THEN b ELSE IF ~IsFinite(b) THEN a
              ELSE IF RLess(b, a) THEN b ELSE a
RMax(a, b) == IF ~IsFinite(a) THEN b ELSE IF ~IsFinite(b) THEN a
              ELSE IF RLess(a, b) THEN b ELSE a
RAbs(a) == <<Abs(a[1]), a[2]>>

\* sqrt of a rational that is a perfect square (all sampler values are)
RSqrt(a) ==
    IF ~IsFinite(a) \/ a[1] < 0 THEN NonFinite
    ELSE <<CHOOSE r \in 0..a[1] : r * r = a[1], CHOOSE r \in 1..a[2] : r * r = a[2]>>

\* truncation of a non-negative float to uint
RFloor(a) == a[1] \div a[2]

V3(x, y, z) == <<x, y, z>>
VAdd(u, v) == [i \in 1..3 |-> RAdd(u[i], v[i])]
VMul(u, v) == [i \in 1..3 |-> RMul(u[i], v[i])]
VScale(u, s) == [i \in 1..3 |-> RMul(u[i], s)]
VDivS(u, s) == [i \in 1..3 |-> RDiv(u[i], s)]
VDot(u, v) == RAdd(RAdd(RMul(u[1], v[1]), RMul(u[2], v[2])), RMul(u[3], v[3]))
VZero == V3(Zero, Zero, Zero)
VOne == V3(One, One, One)


(***************************************************************************)
(* Bit operations on non-negative integers                                 *)
(***************************************************************************)
RECURSIVE BitAnd(_, _)
BitAnd(x, y) ==
    IF x = 0 \/ y = 0 THEN 0
    ELSE ((x % 2) * (y % 2)) + 2 * BitAnd(x \div 2, y \div 2)

BitOr(x, y) == x + y - BitAnd(x, y)

(***************************************************************************)
(* Payload flags (PT.hlsl 159-187); flags are modelled on 8 bits           *)
(***************************************************************************)
encodeIsSpecular(flags) == BitOr(flags, 2)
clearSpecular(flags) == BitAnd(flags, 253)
decodeIsSpecular(flags) == BitAnd(flags, 2) > 0
encodeIsShadow(flags) == BitOr(flags, 4)
decodeIsShadow(flags) == BitAnd(flags, 4) > 0

(***************************************************************************)
(* Sampler (PT.hlsl 256-262)                                               *)
(***************************************************************************)
\* the values rnd can return: float(word) / 2^32 lies in [0, 1], the upper
\* end included because the conversion of a word >= 2^32 - 128 to float
\* rounds up to 2^32.  The values between the ends are the squares
\* ((8 - i) / 8)^2: 49/64, 36/64, ...
Samples == {Zero, One} \cup {Rat((8 - i) * (8 - i), 64) : i \in 1..SampleCount}

(***************************************************************************)
(* Scene data: what the textures, buffers and the acceleration structure   *)
(* can answer                                                              *)
(***************************************************************************)
PI == Rat(355, 113)
Half == Rat(1, 2)

Kinds == 0..7
Albedos == {VOne}
\* instance.bsdfData[0..2] of an emitter
Emissions == {V3(Rat(4, 1), Rat(2, 1), One)}
\* dot products of unit vectors
Cosines == {Rat(-1, 1), Zero, One}
\* dot(normal, WorldRayDirection()) of the interpolated normal: grazing
\* incidence is an input of the mirror only, the one kind whose sample
\* depends on the value (the others read its sign)
RayCosines(kind) == IF kind = 3 THEN Cosines ELSE {Rat(-1, 1), One}
\* squared distance to a light sample
Dist2s == {One}

\* texels of the environment map; without an envmap the scene loader binds
\* a 1x1 black texture
EnvTexels(useEnv) == IF useEnv = 1 THEN {V3(Half, Half, Half)} ELSE {VZero}

\* the uploaded area lights: triangle area, emitted radiance
areaLightData(i) == [Le |-> V3(Rat(4, 1), Rat(2, 1), One), area |-> Half, zeroNormal |-> FALSE]
\* what a read past the uploaded lights (or of an unbound buffer) can give
GarbageLights == {[Le |-> VZero, area |-> Zero, zeroNormal |-> TRUE],
                  [Le |-> V3(Rat(4, 1), Rat(2, 1), One), area |-> Half, zeroNormal |-> FALSE]}

\* contents of a Payload that was declared and not initialised
UninitPayloads ==
    {[depth |-> 9, flags |-> f, colour |-> VZero, pathThroughput |-> VOne] :
        f \in {0, 251, 255}}

(***************************************************************************)
(* Shading-point resolver (PT.hlsl 139-147, 223-233)                       *)
(***************************************************************************)
isBSDFTwoSided(bsdf) == ~(bsdf = 4 \/ bsdf = 6)

\* kind, albedo and instance data are what the buffers hold for the hit;
\* rawNDotRay is dot(normal, WorldRayDirection()) of the interpolated normal
calculateHitData(kind, albedo, emission, rawNDotRay) ==
    [bsdf |-> kind,
     albedo |-> albedo,
     bsdfData |-> emission,
     nDotRay |-> IF isBSDFTwoSided(kind) /\ RLess(Zero, rawNDotRay)
                 THEN RNeg(rawNDotRay) ELSE rawNDotRay]

NoHit == calculateHitData(0, VZero, VZero, Zero)

(***************************************************************************)
(* BSDF model (PT.hlsl 353-365, 412-522)                                   *)
(***************************************************************************)
\* z component of the local direction cosineSampleHemisphere returns:
\* cos(acos(sqrt(r1)))
cosineSampleHemisphere(r1, r2) == RSqrt(r1)

cosineHemispherePDF(wiz) == RDiv(wiz, PI)

\* woLocal.z = dot(-WorldRayDirection(), normal)
woLocalZ(hitData) == RNeg(hitData.nDotRay)

DiffuseSample(hitData, r1, r2) ==
    LET wiz == cosineSampleHemisphere(r1, r2)
    IN  [wiz |-> wiz, reflectedColour |-> VDivS(hitData.albedo, PI),
         pdf |-> cosineHemispherePDF(wiz), isSpecular |-> FALSE, draws |-> 2]

\* variant: an emitter scatters like a diffuse surface
sampleBSDFEmitterScatters(hitData, r1, r2) ==
    IF hitData.bsdf = 3
    THEN [wiz |-> woLocalZ(hitData),
          reflectedColour |-> VDivS(hitData.albedo, woLocalZ(hitData)),
          pdf |-> One, isSpecular |-> TRUE, draws |-> 0]
    ELSE DiffuseSample(hitData, r1, r2)

\* wiz is wiLocal.z = dot(wi, normal) of the returned direction
sampleBSDF(hitData, r1, r2) ==
    CASE hitData.bsdf = 1 ->
            [wiz |-> woLocalZ(hitData), reflectedColour |-> VZero,
             pdf |-> Zero, isSpecular |-> FALSE, draws |-> 0]
      [] hitData.bsdf = 3 ->
            [wiz |-> woLocalZ(hitData),
             reflectedColour |-> VDivS(hitData.albedo, woLocalZ(hitData)),
             pdf |-> One, isSpecular |-> TRUE, draws |-> 0]
      [] OTHER -> DiffuseSample(hitData, r1, r2)

\* variant: glass evaluated like the diffuse kinds
evaluateBSDFGlassDiffuse(hitData) ==
    IF hitData.bsdf \in {1, 3} THEN VZero ELSE VDivS(hitData.albedo, PI)

\* the direction wi is converted to local space and then not read
evaluateBSDF(hitData) ==
    IF hitData.bsdf \in {1, 3, 4} THEN VZero ELSE VDivS(hitData.albedo, PI)

isLight(hitData) == hitData.bsdf = 1

(***************************************************************************)
(* Miss shader and visibility oracle (PT.hlsl 317-332, 524-542)            *)
(***************************************************************************)
\* variant: the environment is added on every miss of a path ray
MissUngated(payload, env) ==
    IF ~decodeIsShadow(payload.flags)
    THEN [payload EXCEPT !.colour = VAdd(payload.colour, VMul(payload.pathThroughput, env))]
    ELSE [payload EXCEPT !.pathThroughput[1] = One]

\* env is evaluateEnvironmentMap(WorldRayDirection())
Miss(payload, env) ==
    IF ~decodeIsShadow(payload.flags)
    THEN IF payload.depth = 0 \/ decodeIsSpecular(payload.flags)
         THEN [payload EXCEPT !.colour = VAdd(payload.colour, VMul(payload.pathThroughput, env))]
         ELSE payload
    ELSE [payload EXCEPT !.pathThroughput[1] = One]

\* variant: the red throughput of the shadow payload is not cleared
shadowPayloadOfUncleared(junk) == [junk EXCEPT !.flags = encodeIsShadow(junk.flags)]

\* the payload of the shadow ray before TraceRay
shadowPayloadOf(junk) ==
    [junk EXCEPT !.flags = encodeIsShadow(junk.flags), !.pathThroughput[1] = Zero]

\* occluded: the shadow ray intersects something (the closest-hit shader is
\* skipped, no shader touches the payload); otherwise the miss shader runs
visible(occluded, junk, env) ==
    LET shadowPayload == shadowPayloadOf(junk)
        after == IF occluded THEN shadowPayload ELSE Miss(shadowPayload, env)
    IN  RLess(Zero, after.pathThroughput[1])

(***************************************************************************)
(* Light sampler and next-event estimation (PT.hlsl 367-410, 544-586)      *)
(***************************************************************************)
uniformSpherePDF == RDiv(One, RMul(Rat(4, 1), PI))

\* u is the value rnd returned; the read of areaLightData is in range only
\* below nLights
sampleLight(u, n, garbage) ==
    LET lightIndex == RFloor(RMul(u, Rat(n, 1)))
    IN  [lightIndex |-> lightIndex,
         pmf |-> RDiv(One, Rat(n, 1)),
         light |-> IF lightIndex < n THEN areaLightData(lightIndex) ELSE garbage]

\* pdf of sampleAreaLight: 1 / (|cross| * 0.5)
sampleAreaLightPDF(light) == RDiv(One, light.area)

\* the test of line 548
SampleEnvironment(useEnv, n, uSel) ==
    useEnv = 1 /\ (RLess(uSel, RAdd(Rat(n, 1), One)) \/ n = 0)

\* number of rnd calls made by the test of line 548: the right operand of
\* && holds the call, which HLSL 2021 skips when the left operand is false
\* and earlier language versions always evaluate
SelectionDraws(useEnv, shortCircuit) == IF shortCircuit /\ useEnv # 1 THEN 0 ELSE 1

EnvironmentDirect(hitData, n, in) ==
    LET pmf == RDiv(One, Rat(n + 1, 1))
        pdf == uniformSpherePDF
        facing == RLess(Zero, in.cosN)
        vis == facing /\ visible(in.occluded, in.junk, in.envTexel)
    IN  [branch |-> "env", uSel |-> in.uSel, pmf |-> pmf, samplePmf |-> pmf, lightIndex |-> 0,
         draws |-> 2, GTerm |-> in.cosN, asked |-> facing, occluded |-> facing /\ in.occluded,
         vis |-> vis,
         value |-> IF vis
                   THEN VDivS(VScale(VMul(in.envTexel, evaluateBSDF(hitData)), in.cosN),
                              RMul(pmf, pdf))
                   ELSE VZero]

AreaLightDirect(hitData, n, in) ==
    LET sl == sampleLight(in.uLight, n, in.garbage)
        light == sl.light
        pmf == RDiv(One, Rat(n + 1, 1))
        pdf == sampleAreaLightPDF(light)
        cosL == IF light.zeroNormal THEN Zero ELSE in.cosL
        GTerm == RDiv(RMul(RMax(in.cosN, Zero), RMax(cosL, Zero)), in.dist2)
        positive == RLess(Zero, GTerm)
        vis == positive /\ visible(in.occluded, in.junk, in.envTexel)
    IN  [branch |-> "light", uSel |-> in.uSel, pmf |-> pmf, samplePmf |-> sl.pmf,
         lightIndex |-> sl.lightIndex, draws |-> 3, GTerm |-> GTerm, asked |-> positive,
         occluded |-> positive /\ in.occluded, vis |-> vis,
         value |-> IF vis
                   THEN VDivS(VScale(VMul(light.Le, evaluateBSDF(hitData)), GTerm),
                              RMul(pmf, pdf))
                   ELSE VZero]

calculateDirect(hitData, useEnv, n, shortCircuit, in) ==
    LET d == IF SampleEnvironment(useEnv, n, in.uSel)
             THEN EnvironmentDirect(hitData, n, in)
             ELSE AreaLightDirect(hitData, n, in)
    IN  [d EXCEPT !.draws = @ + SelectionDraws(useEnv, shortCircuit)]

NoDirect ==
    [branch |-> "none", uSel |-> Zero, pmf |-> Zero, samplePmf |-> Zero, lightIndex |-> 0,
     draws |-> 0, GTerm |-> Zero, asked |-> FALSE, occluded |-> FALSE, vis |-> FALSE,
     value |-> VZero]

\* inputs of one direct-lighting query: the sampler values of the selection
\* and of sampleLight, the dot products and distance of the sampled
\* direction, the answer and the payload of the shadow ray, the texel of the
\* environment map and the data an out-of-range light read returns; an input
\* the query does not read is fixed
DirectInputs(useEnv, n) ==
    LET junk0 == CHOOSE j \in UninitPayloads : TRUE
        garbage0 == CHOOSE g \in GarbageLights : TRUE
        selection == IF useEnv = 1 THEN Samples ELSE {Zero}
        envInputs ==
            [uSel : {u \in selection : SampleEnvironment(useEnv, n, u)}, uLight : {Zero},
             cosN : Cosines, cosL : {Zero}, dist2 : {One}, occluded : BOOLEAN,
             junk : UninitPayloads, envTexel : EnvTexels(useEnv), garbage : {garbage0}]
        lightInputs ==
            [uSel : {u \in selection : ~SampleEnvironment(useEnv, n, u)}, uLight : Samples,
             cosN : Cosines, cosL : Cosines, dist2 : Dist2s, occluded : BOOLEAN,
             junk : UninitPayloads, envTexel : EnvTexels(useEnv), garbage : GarbageLights]
    IN  envInputs \cup
        {i \in lightInputs :
            /\ (RFloor(RMul(i.uLight, Rat(n, 1))) < n => i.garbage = garbage0)
            /\ (~(RLess(Zero, i.cosN) /\ RLess(Zero, i.cosL)) =>
                    i.occluded = FALSE /\ i.junk = junk0)}

(***************************************************************************)
(* Russian roulette (PT.hlsl 611-620)                                      *)
(***************************************************************************)
luminanceWeights == V3(Rat(2126, 10000), Rat(7152, 10000), Rat(722, 10000))

rouletteQ(pathThroughput) == RMin(VDot(pathThroughput, luminanceWeights), Rat(7, 10))

rouletteKill(u, q, depth) == RLess(u, q) \/ depth = 7

\* variant: the survivor is divided by q
rouletteRescaleByQ(pathThroughput, q) == VDivS(pathThroughput, q)

\* line 619
rouletteRescale(pathThroughput, q) == VDivS(pathThroughput, RSub(One, q))

(***************************************************************************)
(* Tone mapping (PT.hlsl 264-268): pow(p, 1/2.2) kept as a symbolic term   *)
(***************************************************************************)
tmo(p) == [pow |-> p, exponent |-> Rat(10, 22)]

(***************************************************************************)
(* State                                                                   *)
(***************************************************************************)
VARIABLES
    cb,            \* constant buffer: nLights, SPP, useEnvironmentMap
    shortCircuit,  \* whether the shader build short-circuits && (HLSL 2021)
    pc,            \* position of the path in the shaders
    idx,           \* DispatchRaysIndex().xy of the path
    payload,       \* the path's Payload
    hitData,       \* HitData of the running ClosestHit invocation
    direct,        \* what calculateDirect did in this invocation
    roulette,      \* q and u of the Russian-roulette test of this invocation
    bsdfSample,    \* what sampleBSDF returned in this invocation
    uav,           \* last write to the output texture
    hits,          \* ClosestHit invocations of the path so far
    level,         \* nesting depth of the running TraceRay call
    reason,        \* why the path stopped
    draws,         \* rnd calls on payload.rndState since the running TraceRay was issued
    prevSpecular,  \* isSpecular as sampleBSDF reported it at the previous bounce
    bsdfValue,     \* what evaluateBSDF returned when it was last called on its own
    host,          \* WinMain: position in the main loop, SPP, fence counter
    gpu,           \* command queue, fence and render target as the device sees them
    scene          \* the scene as the loader built it

\* the state outside the path of the pixel
restVars == <<bsdfValue, host, gpu, scene>>

vars == <<cb, shortCircuit, pc, idx, payload, hitData, direct, roulette, bsdfSample,
          uav, hits, level, reason, draws, prevSpecular, bsdfValue, host, gpu, scene>>

\* the path of the pixel is followed with the rest of the program at rest
NoValue == [called |-> FALSE, value |-> VZero]
HostAtRest == [pc |-> "dispatched"]
GpuAtRest == [pc |-> "running"]
SceneAtRest == [pc |-> "built"]

RestAtRest ==
    /\ bsdfValue = NoValue
    /\ host = HostAtRest
    /\ gpu = GpuAtRest
    /\ scene = SceneAtRest

MaxDepth == 6
RouletteDepth == 3

NoRoulette == [q |-> Zero, u |-> Zero, drawn |-> FALSE]
NoSample == [wiz |-> Zero, reflectedColour |-> VZero, pdf |-> Zero, isSpecular |-> FALSE, draws |-> 0]

\* payload as RayGeneration initialises it (lines 285-289)
initialPayload ==
    [depth |-> 0, flags |-> 0, colour |-> VZero, pathThroughput |-> VOne]

\* the path followed is that of the first pixel in the first frame after a
\* reset of the sample counter (WinMain: SPP = 0, then SPP++)
Pixel == <<0, 0>>
FirstSPP == 1

Init ==
    /\ cb \in [nLights : 0..MaxLights, SPP : {FirstSPP}, useEnvironmentMap : {0, 1}]
    /\ shortCircuit \in BOOLEAN
    /\ (cb.useEnvironmentMap = 1 => shortCircuit)
    /\ pc = "idle"
    /\ idx = Pixel
    /\ payload = initialPayload
    /\ hitData = NoHit
    /\ direct = NoDirect
    /\ roulette = NoRoulette
    /\ bsdfSample = NoSample
    /\ uav = [idx |-> Pixel, value |-> tmo(VZero), written |-> FALSE]
    /\ hits = 0
    /\ level = 0
    /\ reason = "none"
    /\ draws = 0
    /\ prevSpecular = FALSE
    /\ RestAtRest

(***************************************************************************)
(* The locals of a shader invocation (hitData, direct, roulette,           *)
(* bsdfSample) are dead once the invocation returns or issues its final    *)
(* TraceRay; they are then reset.                                          *)
(***************************************************************************)
ClearLocals ==
    /\ hitData' = NoHit
    /\ direct' = NoDirect
    /\ roulette' = NoRoulette
    /\ bsdfSample' = NoSample

(***************************************************************************)
(* RayGeneration (PT.hlsl 276-314)                                         *)
(***************************************************************************)
\* payload set-up, jitter, primary TraceRay; a dispatch runs the shader once
\* for the pixel
RayGeneration ==
    /\ pc = "idle"
    /\ ~uav.written
    /\ idx' = Pixel
    /\ payload' = initialPayload
    /\ pc' = "trace"
    /\ ClearLocals
    /\ hits' = 0
    /\ level' = 1
    /\ reason' = "none"
    /\ draws' = 0
    /\ prevSpecular' = FALSE
    /\ UNCHANGED <<restVars, cb, shortCircuit, uav>>

\* all TraceRay calls have returned: write the pixel
RayGenerationWrite ==
    /\ pc = "ret"
    /\ uav' = [idx |-> idx, value |-> tmo(payload.colour), written |-> TRUE]
    /\ pc' = "idle"
    /\ level' = 0
    /\ payload' = initialPayload
    /\ ClearLocals
    /\ draws' = 0
    /\ prevSpecular' = FALSE
    /\ UNCHANGED <<restVars, cb, shortCircuit, idx, hits, reason>>

(***************************************************************************)
(* Miss shader run for the path's ray                                      *)
(***************************************************************************)
MissShader ==
    /\ pc = "trace"
    /\ \E env \in EnvTexels(cb.useEnvironmentMap) : payload' = Miss(payload, env)
    /\ pc' = "ret"
    /\ reason' = "miss"
    /\ UNCHANGED <<restVars, cb, shortCircuit, idx, hitData, direct, roulette, bsdfSample, uav, hits,
                   level, draws, prevSpecular>>

(***************************************************************************)
(* ClosestHit (PT.hlsl 588-655), one action per stage                      *)
(***************************************************************************)
\* variant: the gate without the specular-path case
emissiveGatePrimaryOnly(hd, p) == isLight(hd) /\ p.depth = 0

emissiveGate(hd, p) == isLight(hd) /\ (p.depth = 0 \/ decodeIsSpecular(p.flags))

\* lines 593-600: resolve the hit; emissive hit under the gating rule
ClosestHit ==
    /\ pc = "trace"
    /\ \E kind \in Kinds, albedo \in Albedos, emission \in Emissions :
       \E raw \in RayCosines(kind) :
          LET hd == calculateHitData(kind, albedo, emission, raw)
          IN  IF emissiveGate(hd, payload)
              THEN /\ payload' = [payload EXCEPT !.colour = hd.bsdfData]
                   /\ hitData' = hd
                   /\ pc' = "ret"
                   /\ reason' = "emissive"
              ELSE /\ payload' = payload
                   /\ hitData' = hd
                   /\ pc' = "direct"
                   /\ reason' = reason
    /\ hits' = hits + 1
    /\ UNCHANGED <<restVars, cb, shortCircuit, idx, direct, roulette, bsdfSample, uav, level, draws,
                   prevSpecular>>

\* line 603: next-event estimation
DirectLighting ==
    /\ pc = "direct"
    /\ \E in \in DirectInputs(cb.useEnvironmentMap, cb.nLights) :
          LET d == calculateDirect(hitData, cb.useEnvironmentMap, cb.nLights, shortCircuit, in)
          IN  /\ direct' = d
              /\ payload' = [payload EXCEPT
                    !.colour = VAdd(payload.colour, VMul(payload.pathThroughput, d.value))]
              /\ draws' = draws + d.draws
    /\ pc' = "depthcheck"
    /\ UNCHANGED <<restVars, cb, shortCircuit, idx, hitData, roulette, bsdfSample, uav, hits, level, reason,
                   prevSpecular>>

\* variant: the bound placed one bounce later
depthLimitReachedLate(depth) == depth = MaxDepth + 1

\* line 606
depthLimitReached(depth) == depth = MaxDepth

rouletteApplies(depth) == depth > RouletteDepth

\* lines 606-612
DepthCheck ==
    /\ pc = "depthcheck"
    /\ IF depthLimitReached(payload.depth)
       THEN /\ pc' = "ret"
            /\ reason' = "depth"
            /\ hitData' = NoHit
       ELSE /\ pc' = IF rouletteApplies(payload.depth) THEN "roulette" ELSE "sample"
            /\ reason' = reason
            /\ hitData' = hitData
    /\ direct' = NoDirect
    /\ UNCHANGED <<restVars, cb, shortCircuit, idx, payload, roulette, bsdfSample, uav, hits, level, draws,
                   prevSpecular>>

\* lines 614-619
RussianRoulette ==
    /\ pc = "roulette"
    /\ \E u \in Samples :
          LET q == rouletteQ(payload.pathThroughput)
          IN  /\ roulette' = [q |-> q, u |-> u, drawn |-> TRUE]
              /\ IF rouletteKill(u, q, payload.depth)
                 THEN /\ payload' = payload
                      /\ hitData' = NoHit
                      /\ pc' = "ret"
                      /\ reason' = "roulette"
                 ELSE /\ payload' = [payload EXCEPT
                            !.pathThroughput = rouletteRescale(payload.pathThroughput, q)]
                      /\ hitData' = hitData
                      /\ pc' = "sample"
                      /\ reason' = reason
    /\ draws' = draws + 1
    /\ UNCHANGED <<restVars, cb, shortCircuit, idx, direct, bsdfSample, uav, hits, level, prevSpecular>>

\* line 627
SampleBSDF ==
    /\ pc = "sample"
    /\ \E r1 \in Samples, r2 \in Samples :
          LET s == sampleBSDF(hitData, r1, r2)
          IN  /\ bsdfSample' = s
              /\ draws' = draws + s.draws
    /\ pc' = "pdfcheck"
    /\ roulette' = NoRoulette
    /\ UNCHANGED <<restVars, cb, shortCircuit, idx, payload, hitData, direct, uav, hits, level, reason,
                   prevSpecular>>

\* variant: only a negative pdf is rejected
pdfInvalidNegative(pdf) == RLess(pdf, Zero)

\* line 630
pdfInvalid(pdf) == RLeq(pdf, Zero)

\* line 636
throughputUpdate(pathThroughput, s) ==
    VDivS(VScale(VMul(pathThroughput, s.reflectedColour), RAbs(s.wiz)), s.pdf)

\* variant: the depth is not advanced
depthUpdateNone(depth) == depth

\* line 637
depthUpdate(depth) == depth + 1

\* variant: the flag is never cleared
specularUpdateSticky(flags, isSpecular) ==
    IF isSpecular THEN encodeIsSpecular(flags) ELSE flags

\* lines 638-644
specularUpdate(flags, isSpecular) ==
    IF isSpecular THEN encodeIsSpecular(flags) ELSE clearSpecular(flags)

\* lines 630-654: pdf check, payload update, continuation TraceRay
Continue ==
    /\ pc = "pdfcheck"
    /\ IF pdfInvalid(bsdfSample.pdf)
       THEN /\ pc' = "ret"
            /\ reason' = "pdf"
            /\ UNCHANGED <<payload, level, draws, prevSpecular>>
       ELSE /\ payload' = [payload EXCEPT
                  !.pathThroughput = throughputUpdate(payload.pathThroughput, bsdfSample),
                  !.depth = depthUpdate(payload.depth),
                  !.flags = specularUpdate(payload.flags, bsdfSample.isSpecular)]
            /\ pc' = "trace"
            /\ level' = level + 1
            /\ reason' = reason
            /\ draws' = 0
            /\ prevSpecular' = bsdfSample.isSpecular
    /\ ClearLocals
    /\ UNCHANGED <<restVars, cb, shortCircuit, idx, uav, hits>>

Next ==
    \/ RayGeneration
    \/ RayGenerationWrite
    \/ MissShader
    \/ ClosestHit
    \/ DirectLighting
    \/ DepthCheck
    \/ RussianRoulette
    \/ SampleBSDF
    \/ Continue

Spec == Init /\ [][Next]_vars

TypeOK ==
    /\ pc \in {"idle", "trace", "direct", "depthcheck", "roulette", "sample", "pdfcheck", "ret"}
    /\ payload.depth \in 0..7

PCs == {"idle", "trace", "direct", "depthcheck", "roulette", "sample", "pdfcheck", "ret"}

\* the pixel's thread has written its result
Done == pc = "idle" /\ uav.written

\* the thread moves to its next position
Advance == ~Done /\ pc' \in PCs

\* The GPU keeps executing a dispatched thread until it has returned
\* (finishFrame waits on the fence for it): while the thread is not done its
\* position eventually changes, which only a step of Next can do.
FairSpec == Spec /\ WF_pc(Advance)

(***************************************************************************)
(* Russian roulette on its own: the test of lines 612-620 applied to a      *)
(* grid of throughputs at the depths where it runs                         *)
(***************************************************************************)
RouletteThroughputs ==
    {V3(r, g, b) : r \in {Zero, Half, One, Rat(2, 1)},
                   g \in {Zero, Half, One, Rat(2, 1)},
                   b \in {Zero, Half, One, Rat(2, 1)}}

RRInit ==
    /\ cb = [nLights |-> 0, SPP |-> FirstSPP, useEnvironmentMap |-> 1]
    /\ shortCircuit = TRUE
    /\ pc = "roulette"
    /\ idx = Pixel
    /\ \E d \in (RouletteDepth + 1)..(MaxDepth - 1), T \in RouletteThroughputs :
          /\ payload = [depth |-> d, flags |-> 0, colour |-> VZero, pathThroughput |-> T]
          /\ hits = d + 1
          /\ level = d + 1
    /\ hitData = calculateHitData(0, VOne, VZero, Rat(-1, 1))
    /\ direct = NoDirect
    /\ roulette = NoRoulette
    /\ bsdfSample = NoSample
    /\ uav = [idx |-> Pixel, value |-> tmo(VZero), written |-> FALSE]
    /\ reason = "none"
    /\ draws = 3
    /\ prevSpecular = FALSE
    /\ RestAtRest

RRSpec == RRInit /\ [][RussianRoulette]_vars

\* u uniform in [0,1): the 10000 equally spaced values j/10000
UniformDraws == {<<j, 10000>> : j \in 0..9999}

\* mean over the uniform draws of (kept ? T / (1 - q) : 0)
rouletteExpected(pathThroughput, depth) ==
    LET q == rouletteQ(pathThroughput)
        kept == {u \in UniformDraws : ~rouletteKill(u, q, depth)}
    IN  VScale(rouletteRescale(pathThroughput, q),
               Rat(Cardinality(kept), Cardinality(UniformDraws)))

(***************************************************************************)
(* The BSDF on its own: sampleBSDF, then evaluateBSDF at the sampled        *)
(* direction, for every kind of material                                   *)
(***************************************************************************)
BSDFAlbedos == {VOne, V3(Half, Rat(1, 4), Zero)}

BSDFInit ==
    /\ cb = [nLights |-> 0, SPP |-> FirstSPP, useEnvironmentMap |-> 1]
    /\ shortCircuit = TRUE
    /\ pc = "sample"
    /\ idx = Pixel
    /\ payload = initialPayload
    /\ \E kind \in Kinds, albedo \in BSDFAlbedos, emission \in Emissions \cup {VZero} :
          \E raw \in RayCosines(kind) :
             /\ (emission # VZero <=> kind = 1)
             /\ hitData = calculateHitData(kind, albedo, emission, raw)
    /\ direct = NoDirect
    /\ roulette = NoRoulette
    /\ bsdfSample = NoSample
    /\ uav = [idx |-> Pixel, value |-> tmo(VZero), written |-> FALSE]
    /\ hits = 1
    /\ level = 1
    /\ reason = "none"
    /\ draws = 0
    /\ prevSpecular = FALSE
    /\ RestAtRest

\* evaluateBSDF(hitData, wi) with wi the direction sampleBSDF returned
BSDFEvaluate ==
    /\ pc = "pdfcheck"
    /\ ~bsdfValue.called
    /\ bsdfValue' = [called |-> TRUE, value |-> evaluateBSDF(hitData)]
    /\ UNCHANGED <<cb, shortCircuit, pc, idx, payload, hitData, direct, roulette, bsdfSample,
                   uav, hits, level, reason, draws, prevSpecular, host, gpu, scene>>

BSDFNext ==
    \/ SampleBSDF
    \/ BSDFEvaluate

BSDFSpec == BSDFInit /\ [][BSDFNext]_vars

(***************************************************************************)
(* Properties                                                              *)
(***************************************************************************)
specularSet(p) == decodeIsSpecular(p.flags)

\* a step that starts a ClosestHit invocation
HitStep == pc = "trace" /\ hits' = hits + 1

\* a step that runs the miss shader for the path's ray
MissStep == pc = "trace" /\ reason' = "miss"

\* C1: hard depth bound.  The payload depth stays in 0..6; a ClosestHit
\* invocation at depth 6 that is not ended by the emissive gate adds
\* throughput * direct lighting to the colour and then returns: no sampler
\* draw after the direct-lighting query, no BSDF sample, no further
\* TraceRay; the Russian-roulette test is never reached at depth 7.
C1_HardDepthBound ==
    [][ /\ payload.depth \in 0..6
        /\ payload'.depth \in 0..6
        /\ (pc = "direct" /\ payload.depth = 6 =>
               /\ pc' = "depthcheck"
               /\ payload'.colour =
                     VAdd(payload.colour, VMul(payload.pathThroughput, direct'.value))
               /\ bsdfSample' = NoSample /\ roulette' = NoRoulette /\ level' = level)
        /\ (pc = "depthcheck" /\ payload.depth = 6 =>
               /\ pc' = "ret"
               /\ reason' = "depth"
               /\ payload' = payload
               /\ draws' = draws
               /\ level' = level
               /\ bsdfSample' = NoSample /\ roulette' = NoRoulette)
        /\ (pc = "roulette" => payload.depth # 7)
      ]_vars

C1_Witness == pc = "ret" /\ reason = "depth" /\ payload.depth = 6 /\ hitData.bsdf # 1

StopReasons == {"miss", "emissive", "depth", "roulette", "pdf"}

\* C2: every path terminates after at most 7 ClosestHit invocations, and it
\* stops for one of five reasons: miss, emissive hit under the gate,
\* depth == 6, Russian-roulette kill, pdf <= 0.
C2_PathTerminates ==
    /\ [](/\ hits <= 7
          /\ (pc \in {"trace", "direct", "depthcheck", "roulette", "sample", "pdfcheck"}
                 => reason = "none")
          /\ (pc = "ret" \/ uav.written => reason \in StopReasons))
    /\ <>Done

C2_Witness == Done /\ hits = 7 /\ reason = "depth"

\* C3: miss rule.  When the path's ray misses, the environment radiance
\* times the throughput is added to the colour if depth == 0 or the specular
\* flag is set, the colour is unchanged otherwise, and the path ends; a
\* primary ray that misses ends with exactly the environment radiance.
C3_MissRule ==
    [][ MissStep =>
          /\ pc' = "ret"
          /\ ~decodeIsShadow(payload.flags)
          /\ payload'.depth = payload.depth
          /\ payload'.flags = payload.flags
          /\ payload'.pathThroughput = payload.pathThroughput
          /\ (payload.depth = 0 \/ specularSet(payload) =>
                 \E env \in EnvTexels(cb.useEnvironmentMap) :
                    payload'.colour =
                       VAdd(payload.colour, VMul(payload.pathThroughput, env)))
          /\ (~(payload.depth = 0 \/ specularSet(payload)) =>
                 payload'.colour = payload.colour)
          /\ (payload.depth = 0 => payload'.colour \in EnvTexels(cb.useEnvironmentMap))
      ]_vars

C3_Witness ==
    /\ pc = "ret" /\ reason = "miss" /\ payload.depth = 0
    /\ cb.useEnvironmentMap = 1
    /\ payload.colour = V3(Half, Half, Half)

\* C4: emissive gate.  A hit of an emissive surface at depth 0 or with the
\* specular flag set sets the colour to the emission and ends the path at
\* once: no direct lighting, no sampler draw, no further ray.  No other hit
\* touches the payload before its direct-lighting query, and an emissive
\* hit outside the gate adds nothing to the colour and traces no further
\* ray, so the gate is the only place where hit emission reaches a path.
C4_EmissiveGate ==
    /\ [][ HitStep =>
          IF isLight(hitData') /\ (payload.depth = 0 \/ specularSet(payload))
          THEN /\ pc' = "ret"
               /\ reason' = "emissive"
               /\ payload' = [payload EXCEPT !.colour = hitData'.bsdfData]
               /\ draws' = draws
               /\ level' = level
               /\ direct' = NoDirect
          ELSE /\ pc' = "direct"
               /\ payload' = payload
      ]_vars
    /\ [][ isLight(hitData) /\ pc \in {"direct", "depthcheck", "roulette", "sample", "pdfcheck"} =>
             payload'.colour = payload.colour /\ pc' # "trace"
         ]_vars

C4_Witness ==
    /\ pc = "ret" /\ reason = "emissive"
    /\ payload.depth >= 1 /\ specularSet(payload)
    /\ payload.colour \in Emissions

\* C5: specular-flag propagation.  From depth 1 on, the specular flag seen
\* by Miss and ClosestHit is set exactly when the previous bounce's BSDF
\* sample reported isSpecular; so a miss after a specular bounce adds
\* environment light and a miss after a non-specular bounce adds none.
C5_SpecularFlag ==
    /\ [](pc = "trace" /\ payload.depth >= 1 => (specularSet(payload) <=> prevSpecular))
    /\ [][ MissStep /\ payload.depth >= 1 =>
             /\ (prevSpecular =>
                    \E env \in EnvTexels(cb.useEnvironmentMap) :
                       payload'.colour =
                          VAdd(payload.colour, VMul(payload.pathThroughput, env)))
             /\ (~prevSpecular => payload'.colour = payload.colour)
         ]_vars

C5_Witness ==
    /\ pc = "ret" /\ reason = "miss" /\ payload.depth >= 2
    /\ prevSpecular /\ specularSet(payload)
    /\ cb.useEnvironmentMap = 1

\* C6: a pdf <= 0 returned by sampleBSDF ends the invocation with the
\* payload (depth, flags, colour, throughput) untouched and no further ray.
C6_InvalidPdf ==
    [][ pc = "pdfcheck" /\ RLeq(bsdfSample.pdf, Zero) =>
          /\ pc' = "ret"
          /\ reason' = "pdf"
          /\ payload' = payload
          /\ level' = level
          /\ draws' = draws
      ]_vars

C6_Witness == pc = "ret" /\ reason = "pdf" /\ payload.depth = 2 /\ draws > 0

\* C7: Russian roulette is unbiased.  With q = min(dot(T, luminance), 0.7)
\* the path is killed exactly when u < q and a survivor's throughput is
\* T / (1 - q); for every non-negative T the mean over uniform u of
\* (kept ? T / (1 - q) : 0) is T, and the divisor 1 - q is at least 0.3.
C7_RouletteUnbiased ==
    /\ [](pc = "roulette" =>
            /\ rouletteExpected(payload.pathThroughput, payload.depth) = payload.pathThroughput
            /\ RLeq(Rat(3, 10), RSub(One, rouletteQ(payload.pathThroughput))))
    /\ [][ pc = "roulette" =>
             LET q == RMin(VDot(payload.pathThroughput, luminanceWeights), Rat(7, 10))
             IN  /\ roulette'.q = q
                 /\ IF RLess(roulette'.u, q)
                    THEN pc' = "ret" /\ reason' = "roulette" /\ payload' = payload
                    ELSE /\ pc' = "sample"
                         /\ payload' = [payload EXCEPT
                               !.pathThroughput = VDivS(payload.pathThroughput, RSub(One, q))]
         ]_vars

C7_Witness ==
    /\ pc = "sample" /\ roulette.drawn
    /\ roulette.q = Rat(1063, 5000)
    /\ payload.pathThroughput = V3(Rat(5000, 3937), Zero, Zero)

\* C8: with an environment map and N >= 1 area lights a direct-lighting
\* query samples the environment with probability 1/(N+1) and an area light
\* with probability N/(N+1): over the sampler value u of the selection, the
\* environment is sampled exactly when u < 1/(N+1).
C8_LightSelectionSplit ==
    cb.useEnvironmentMap = 1 /\ cb.nLights >= 1 /\ direct.branch # "none" =>
        (direct.branch = "env" <=> RLess(direct.uSel, Rat(1, cb.nLights + 1)))

\* C9: without an environment map a direct-lighting query always samples an
\* area light, chosen uniformly over the N lights, and divides the
\* contribution by the probability mass 1/N.
C9_LightPmfNoEnvironment ==
    cb.useEnvironmentMap = 0 /\ cb.nLights >= 1 /\ direct.branch # "none" =>
        /\ direct.branch = "light"
        /\ direct.samplePmf = Rat(1, cb.nLights)
        /\ direct.pmf = Rat(1, cb.nLights)

\* C10: visibility oracle.  visible is true exactly when the shadow ray
\* intersects nothing, i.e. when the miss shader ran on the shadow payload;
\* no closest-hit invocation is made for a shadow ray; the direct-lighting
\* term is zero whenever the geometry term is not positive or visible is
\* false.
C10_VisibilityOracle ==
    /\ [](direct.branch # "none" =>
            /\ (direct.asked => (direct.vis <=> ~direct.occluded))
            /\ (~RLess(Zero, direct.GTerm) \/ ~direct.vis => direct.value = VZero))
    /\ [][pc = "direct" => hits' = hits /\ level' = level /\ hitData' = hitData]_vars

C10_Witness ==
    /\ pc = "depthcheck" /\ direct.branch = "light"
    /\ direct.asked /\ direct.occluded /\ ~direct.vis
    /\ direct.value = VZero

\* C11: BSDF evaluation table.  For every kind 0..7 evaluateBSDF returns
\* zero for emissive (1), mirror (3) and glass (4) and albedo / pi for
\* diffuse (0), Oren-Nayar (2), plastic (5), dielectric (6), conductor (7).
C11_EvaluateTable ==
    bsdfValue.called =>
        /\ hitData.bsdf \in 0..7
        /\ (hitData.bsdf \in {1, 3, 4} => bsdfValue.value = VZero)
        /\ (hitData.bsdf \in {0, 2, 5, 6, 7} =>
               bsdfValue.value = [i \in 1..3 |-> RDiv(hitData.albedo[i], PI)])

C11_Witness ==
    /\ bsdfValue.called /\ hitData.bsdf = 7
    /\ hitData.albedo = V3(Half, Rat(1, 4), Zero)
    /\ bsdfValue.value = V3(Rat(113, 710), Rat(113, 1420), Zero)

\* C12: sample/evaluate round trip.  Whenever sampleBSDF reports
\* isSpecular = false and pdf > 0, evaluateBSDF at the sampled direction
\* returns the value sampleBSDF reported as reflectedColour.
C12_RoundTrip ==
    bsdfValue.called /\ ~bsdfSample.isSpecular /\ RLess(Zero, bsdfSample.pdf) =>
        bsdfValue.value = bsdfSample.reflectedColour

\* C13: specular marking.  sampleBSDF marks the bounce specular for mirror
\* (3) and glass (4) and not specular for every other kind; for emissive
\* (1) it returns zero reflected value and zero pdf.
C13_SpecularMarking ==
    pc = "pdfcheck" =>
        /\ (bsdfSample.isSpecular <=> hitData.bsdf \in {3, 4})
        /\ (hitData.bsdf = 1 => bsdfSample.reflectedColour = VZero /\ bsdfSample.pdf = Zero)

\* C14: accumulated radiance is built additively.  Every step of the Miss
\* and ClosestHit shaders leaves each component of the payload colour
\* greater than or equal to its value before the step.
C14_AdditiveColour ==
    [][ (pc \in {"trace", "direct", "depthcheck", "roulette", "sample", "pdfcheck"}) =>
          (\A i \in 1..3 : RLeq(payload.colour[i], payload'.colour[i]))
      ]_vars

\* C15: the throughput stays non-negative.  In every reachable state of a
\* path each component of pathThroughput is >= 0; the BSDF rescale is only
\* applied with pdf > 0 and the Russian-roulette rescale only with
\* 1 - q > 0.
C15_ThroughputNonNegative ==
    /\ \A i \in 1..3 : RLeq(Zero, payload.pathThroughput[i])
    /\ (pc = "pdfcheck" /\ ~pdfInvalid(bsdfSample.pdf) => RLess(Zero, bsdfSample.pdf))
    /\ (roulette.drawn /\ pc = "sample" => RLess(Zero, RSub(One, roulette.q)))

(***************************************************************************)
(* The main loop and the graphics queue (WinMain part_000 102-171, Core    *)
(* part_003 739-801, GPUFence part_003 371-390, Shaders.h 123-399 and      *)
(* 525-535, Scene::draw part_002 467-483).  The host records one command   *)
(* list, submits it to the one graphics queue and signals the one fence;   *)
(* the queue executes its entries in order.  The path of the pixel is      *)
(* taken as one step of the dispatch.                                      *)
(***************************************************************************)
MaxFrames == 3
TwoTo24 == 16777216

\* static_cast<float>(SPP): the nearest value with a 24-bit significand,
\* ties to even
RECURSIVE floatUlp(_, _)
floatUlp(n, ulp) == IF n \div ulp < TwoTo24 THEN ulp ELSE floatUlp(n, 2 * ulp)

floatOf(n) ==
    LET ulp == floatUlp(n, 1)
        q == n \div ulp
        rem == n % ulp
    IN  IF 2 * rem > ulp \/ (2 * rem = ulp /\ q % 2 = 1)
        THEN (q + 1) * ulp
        ELSE q * ulp

Keys == {"W", "S", "A", "D", "LMB", "ESC"}
CameraKeys == {"W", "S", "A", "D", "LMB"}

\* values of the counter at the top of a loop iteration: program start, and
\* a long run of frames without camera input
SPPStarts == {0, TwoTo24 - 1}

\* colours a path returns: nothing seen, an emitter seen directly
FrameColours == {VZero, V3(Rat(4, 1), Rat(2, 1), One)}

\* every frame signals the fence twice (upload, finishFrame); Scene::build
\* signalled it before the loop
fenceAfter(n) == 1 + 2 * n

FrameInit ==
    /\ \E n \in SPPStarts :
          /\ host = [pc |-> "input", SPP |-> n, SPPf |-> floatOf(n), dirty |-> (n = 0),
                     reset |-> FALSE, list |-> <<>>, value1 |-> fenceAfter(n) + 1,
                     waiting |-> fenceAfter(n), after |-> "none", frames |-> 0]
          /\ gpu = [queue |-> <<>>, fence |-> fenceAfter(n), backbuffer |-> tmo(VZero),
                    k |-> n, sum |-> VZero, rendered |-> (n > 0), seed |-> floatOf(n)]
          /\ cb = [nLights |-> 0, SPP |-> floatOf(n), useEnvironmentMap |-> 0]
          /\ uav = [idx |-> Pixel, value |-> tmo(VZero), written |-> (n > 0)]
    /\ shortCircuit = TRUE
    /\ pc = "idle"
    /\ idx = Pixel
    /\ payload = initialPayload
    /\ hitData = NoHit
    /\ direct = NoDirect
    /\ roulette = NoRoulette
    /\ bsdfSample = NoSample
    /\ hits = 0
    /\ level = 0
    /\ reason = "none"
    /\ draws = 0
    /\ prevSpecular = FALSE
    /\ bsdfValue = NoValue
    /\ scene = SceneAtRest

pathVars == <<shortCircuit, pc, idx, payload, hitData, direct, roulette, bsdfSample,
              hits, level, reason, draws, prevSpecular, bsdfValue, scene>>

\* ID3D12CommandQueue::ExecuteCommandLists
submit(queue, list) == Append(queue, [op |-> "list", cmds |-> list, value |-> 0])

\* ID3D12CommandQueue::Signal
queueSignal(queue, value) == Append(queue, [op |-> "signal", cmds |-> <<>>, value |-> value])

\* variant: the wait returns at once (an event handle is passed)
fenceReachedAtOnce(fence, value) == TRUE

\* ID3D12Fence::SetEventOnCompletion(value, nullptr) returns once the fence
\* has reached the value
fenceReached(fence, value) == fence >= value

GpuIdle == gpu.queue = <<>>

\* WinMain 107-143: input; a camera key or the left mouse button resets SPP
checkInput ==
    /\ host.pc = "input"
    /\ \E keys \in SUBSET Keys :
          LET moved == keys \cap CameraKeys # {}
          IN  /\ ("ESC" \notin keys => host.frames < MaxFrames)
              /\ host' = [host EXCEPT !.SPP = IF moved THEN 0 ELSE @,
                                      !.reset = moved,
                                      !.pc = IF "ESC" \in keys THEN "flush" ELSE "beginFrame"]
              /\ gpu' = IF moved THEN [gpu EXCEPT !.k = 0, !.sum = VZero] ELSE gpu
    /\ UNCHANGED <<cb, uav, pathVars>>

\* Core::beginFrame: allocator and command list are reset
beginFrame ==
    /\ host.pc = "beginFrame"
    /\ host' = [host EXCEPT !.list = <<>>, !.frames = @ + 1, !.pc = "update"]
    /\ UNCHANGED <<cb, uav, gpu, pathVars>>

\* WinMain 149-158: the camera matrices and SPP go to the CPU copy of the
\* constant buffer (the model's runs stay far below the wrap of the
\* unsigned counter)
updateConstant ==
    /\ host.pc = "update"
    /\ host' = [host EXCEPT !.SPP = @ + 1, !.SPPf = floatOf(host.SPP + 1),
                            !.dirty = TRUE, !.pc = "apply1"]
    /\ UNCHANGED <<cb, uav, gpu, pathVars>>

\* Shaders::apply with RTShader::upload: a dirty buffer is copied to the
\* mapped resource, the list is submitted and the queue flushed
apply ==
    /\ host.pc \in {"apply1", "apply2"}
    /\ LET next == IF host.pc = "apply1" THEN "bind" ELSE "draw"
           list == Append(host.list, "SetComputeRootConstantBufferView")
       IN  IF host.dirty
           THEN /\ cb' = [cb EXCEPT !.SPP = host.SPPf]
                /\ gpu' = [gpu EXCEPT !.queue = queueSignal(submit(@, list), host.value1)]
                /\ host' = [host EXCEPT !.dirty = FALSE, !.list = list,
                                        !.waiting = host.value1, !.value1 = @ + 1,
                                        !.after = next, !.pc = "wait"]
           ELSE /\ host' = [host EXCEPT !.list = Append(list, "SetPipelineState1"), !.pc = next]
                /\ UNCHANGED <<cb, gpu>>
    /\ UNCHANGED <<uav, pathVars>>

\* Core::bindRTUAV
bindRTUAV ==
    /\ host.pc = "bind"
    /\ host' = [host EXCEPT !.list = Append(@, "SetComputeRootDescriptorTable"), !.pc = "apply2"]
    /\ UNCHANGED <<cb, uav, gpu, pathVars>>

\* Scene::draw
draw ==
    /\ host.pc = "draw"
    /\ host' = [host EXCEPT !.list = Append(@, "DispatchRays"), !.pc = "finish"]
    /\ UNCHANGED <<cb, uav, gpu, pathVars>>

\* Core::finishFrame up to the fence wait
finishFrame ==
    /\ host.pc = "finish"
    /\ LET list == Append(host.list, "CopyResource")
       IN  /\ gpu' = [gpu EXCEPT !.queue = queueSignal(submit(@, list), host.value1)]
           /\ host' = [host EXCEPT !.list = list, !.waiting = host.value1, !.value1 = @ + 1,
                                   !.after = "present", !.pc = "wait"]
    /\ UNCHANGED <<cb, uav, pathVars>>

\* WinMain 171: core.flushGraphicsQueue() after the loop
flushGraphicsQueue ==
    /\ host.pc = "flush"
    /\ gpu' = [gpu EXCEPT !.queue = queueSignal(@, host.value1)]
    /\ host' = [host EXCEPT !.waiting = host.value1, !.value1 = @ + 1,
                            !.after = "exit", !.pc = "wait"]
    /\ UNCHANGED <<cb, uav, pathVars>>

\* GPUFence::signal returns: resetCommandList and the rest of apply, or
\* Present and the next iteration, or the end of WinMain
signalReturn ==
    /\ host.pc = "wait"
    /\ fenceReached(gpu.fence, host.waiting)
    /\ host' = CASE host.after = "present" -> [host EXCEPT !.pc = "input"]
                 [] host.after = "exit" -> [host EXCEPT !.pc = "done"]
                 [] OTHER -> [host EXCEPT !.list = <<"SetPipelineState1">>, !.pc = host.after]
    /\ UNCHANGED <<cb, uav, gpu, pathVars>>

\* the queue advances past the command at the head of its first list
popCommand(queue) ==
    IF Len(Head(queue).cmds) = 1 THEN Tail(queue)
    ELSE <<[Head(queue) EXCEPT !.cmds = Tail(@)]>> \o Tail(queue)

headCommand(queue) ==
    IF queue # <<>> /\ Head(queue).op = "list" THEN Head(Head(queue).cmds) ELSE "none"

\* DispatchRays: RayGeneration runs for the pixel with the constant buffer
\* as it is now and writes the pixel (PT.hlsl 313)
gpuDispatchRays ==
    /\ headCommand(gpu.queue) = "DispatchRays"
    /\ \E colour \in FrameColours :
          /\ uav' = [idx |-> Pixel, value |-> tmo(colour), written |-> TRUE]
          /\ gpu' = [gpu EXCEPT !.queue = popCommand(@), !.k = @ + 1,
                                !.sum = VAdd(@, colour), !.rendered = TRUE, !.seed = cb.SPP]
    /\ UNCHANGED <<cb, host, pathVars>>

\* CopyResource(backbuffer, rendertarget)
gpuCopyResource ==
    /\ headCommand(gpu.queue) = "CopyResource"
    /\ gpu' = [gpu EXCEPT !.queue = popCommand(@), !.backbuffer = uav.value]
    /\ UNCHANGED <<cb, uav, host, pathVars>>

\* state-setting commands
gpuSetState ==
    /\ headCommand(gpu.queue) \notin {"none", "DispatchRays", "CopyResource"}
    /\ gpu' = [gpu EXCEPT !.queue = popCommand(@)]
    /\ UNCHANGED <<cb, uav, host, pathVars>>

\* the queue reaches a Signal: the fence takes the value
gpuSignal ==
    /\ gpu.queue # <<>>
    /\ Head(gpu.queue).op = "signal"
    /\ gpu' = [gpu EXCEPT !.queue = Tail(@), !.fence = Head(gpu.queue).value]
    /\ UNCHANGED <<cb, uav, host, pathVars>>

FrameNext ==
    \/ checkInput
    \/ beginFrame
    \/ updateConstant
    \/ apply
    \/ bindRTUAV
    \/ draw
    \/ finishFrame
    \/ flushGraphicsQueue
    \/ signalReturn
    \/ gpuDispatchRays
    \/ gpuCopyResource
    \/ gpuSetState
    \/ gpuSignal

FrameSpec == FrameInit /\ [][FrameNext]_vars

\* a step of the queue that runs the dispatch of a frame
DispatchStep == headCommand(gpu.queue) = "DispatchRays" /\ gpu'.k = gpu.k + 1

\* C16: progressive accumulation.  After the k-th frame rendered since the
\* last reset the value stored for the pixel is the (tone-mapped) running
\* average of the k samples traced for it since the reset.
C16_RunningAverage ==
    uav.written /\ gpu.k >= 1 =>
        uav.value = tmo([i \in 1..3 |-> RDiv(gpu.sum[i], Rat(gpu.k, 1))])

\* C17: sample-counter protocol.  A frame that follows camera input is
\* rendered with SPP == 1; a frame without such input is rendered with SPP
\* exactly one greater than the previous frame's; the SPP the shader gets
\* is always >= 1 and strictly greater than the previous frame's unless the
\* counter was reset.
C17_SampleCounter ==
    [][ DispatchStep =>
          /\ (host.reset => gpu'.seed = 1)
          /\ (~host.reset /\ gpu.rendered => gpu'.seed = gpu.seed + 1)
          /\ gpu'.seed >= 1
          /\ (~host.reset /\ gpu.rendered => gpu'.seed > gpu.seed)
      ]_vars

\* C18: frames are strictly sequential.  Whenever the host is not blocked
\* in the fence wait (so whenever it resets the allocator, records a frame
\* or rewrites the constant buffer) the queue has finished everything that
\* was submitted; the wait returns only once the fence has reached the
\* signalled value; signalled values are strictly increasing.
C18_FramesSequential ==
    [][ /\ (host.pc # "wait" => GpuIdle)
        /\ (host.pc = "wait" /\ host'.pc # "wait" => gpu.fence >= host.waiting)
        /\ (host'.value1 # host.value1 =>
               /\ host'.waiting > host.waiting
               /\ gpu'.queue[Len(gpu'.queue)] = [op |-> "signal", cmds |-> <<>>, value |-> host'.waiting])
        /\ (cb' # cb => GpuIdle /\ gpu.fence = host.waiting)
      ]_vars

\* frame 2 is being recorded after frame 1 was rendered with SPP 1, copied
\* to the back buffer and the fence reached the value signalled for it
C18_Witness ==
    /\ host.pc = "update"
    /\ host.frames = 2
    /\ host.SPP = 1
    /\ gpu.k = 1
    /\ uav.written
    /\ gpu.backbuffer = uav.value
    /\ gpu.fence = host.waiting
    /\ gpu.fence = 3

(***************************************************************************)
(* One dispatch over several pixels (PT.hlsl 276-314 with the shaders it   *)
(* calls).  Every pixel of the first row has a thread; the threads are     *)
(* interleaved at the TraceRay calls.  Each step records which locations   *)
(* it read and wrote.                                                      *)
(***************************************************************************)
DispatchWidth == 2

Pixels == {<<x, 0>> : x \in 0..(DispatchWidth - 1)}

\* resources bound read-only: cbuffer, acceleration structure, vertex,
\* index, instance and light buffers, textures (PT.hlsl 39-97)
ReadOnlyNames == {"CBuffer", "scene", "vertices", "indices", "instances", "lights", "textures"}

\* a location is a resource name with the index of the element
shared(name) == <<name, <<>>>>

ReadOnly == {shared(name) : name \in ReadOnlyNames}

\* payload.rndState: the seed and the number of rnd calls made with it
seedOf(xy, SPP) == [x |-> xy[1], y |-> xy[2], SPP |-> SPP, n |-> 0]

threadPayload(xy, SPP) ==
    [depth |-> 0, flags |-> 0, colour |-> VZero, pathThroughput |-> VOne,
     rndState |-> seedOf(xy, SPP)]

drawn(p, n) == [p EXCEPT !.rndState.n = @ + n]

\* variant: the row index alone addresses the texture
uavIndexRow(xy) == <<0, xy[2]>>

\* uav[idx], idx = DispatchRaysIndex().xy
uavIndex(xy) == xy

\* a thread: position, payload, and the locations it has read and written
idleThread(t) ==
    [pc |-> "idle", payload |-> threadPayload(t, FirstSPP), reads |-> {}, writes |-> {}]

\* when the outermost TraceRay returns only payload.colour is still read
returned(p) == [threadPayload(<<0, 0>>, 0) EXCEPT !.colour = p.colour]

PixelsInit ==
    /\ cb = [nLights |-> 0, SPP |-> FirstSPP, useEnvironmentMap |-> 1]
    /\ shortCircuit = TRUE
    /\ pc = "idle"
    /\ idx = Pixel
    /\ payload = initialPayload
    /\ hitData = NoHit
    /\ direct = NoDirect
    /\ roulette = NoRoulette
    /\ bsdfSample = NoSample
    /\ uav = [idx |-> Pixel, value |-> tmo(VZero), written |-> FALSE]
    /\ hits = 0
    /\ level = 0
    /\ reason = "none"
    /\ draws = 0
    /\ prevSpecular = FALSE
    /\ bsdfValue = NoValue
    /\ host = HostAtRest
    /\ scene = SceneAtRest
    /\ gpu = [pc |-> "running",
              threads |-> [t \in Pixels |-> idleThread(t)],
              uav |-> [p \in Pixels |-> [value |-> tmo(VZero), writes |-> 0]]]

dispatchVars == <<cb, shortCircuit, pc, idx, payload, hitData, direct, roulette, bsdfSample,
                  uav, hits, level, reason, draws, prevSpecular, bsdfValue, host, scene>>

\* lines 280-311: the payload is set up, two values jitter the pixel, the
\* primary ray is traced
threadRayGeneration(t) ==
    /\ gpu.threads[t].pc = "idle"
    /\ gpu' = [gpu EXCEPT
          !.threads[t] = [pc |-> "trace", payload |-> drawn(threadPayload(t, cb.SPP), 2),
                          reads |-> {shared("CBuffer")}, writes |-> {<<"payload", t>>}]]
    /\ UNCHANGED dispatchVars

\* Miss for the ray of the path
threadMiss(t) ==
    /\ gpu.threads[t].pc = "trace"
    /\ \E env \in EnvTexels(cb.useEnvironmentMap) :
          gpu' = [gpu EXCEPT
              !.threads[t] = [pc |-> "ret",
                              payload |-> returned(Miss(gpu.threads[t].payload, env)),
                              reads |-> @.reads \cup {<<"payload", t>>, shared("CBuffer"),
                                                      shared("textures")},
                              writes |-> @.writes \cup {<<"payload", t>>}]]
    /\ UNCHANGED dispatchVars

\* surfaces and light samples the threads meet
ThreadKinds == {0, 1}
ThreadDirectInputs ==
    {in \in DirectInputs(1, 0) : in.uSel = Zero /\ in.cosN = One /\ ~in.occluded}

\* ClosestHit (lines 590-654) up to its return or its TraceRay
threadClosestHit(t) ==
    /\ gpu.threads[t].pc = "trace"
    /\ \E kind \in ThreadKinds, in \in ThreadDirectInputs,
          u \in (IF rouletteApplies(gpu.threads[t].payload.depth) THEN Samples ELSE {Zero}) :
       \E hd \in {calculateHitData(kind, VOne, CHOOSE e \in Emissions : TRUE, Rat(-1, 1))} :
       \E d \in {calculateDirect(hd, cb.useEnvironmentMap, cb.nLights, shortCircuit, in)} :
       \E s \in {sampleBSDF(hd, One, Zero)} :
       \E lit \in {drawn([gpu.threads[t].payload EXCEPT
                            !.colour = VAdd(@, VMul(gpu.threads[t].payload.pathThroughput, d.value))],
                         d.draws)} :
          LET p == gpu.threads[t].payload
              rr == rouletteApplies(lit.depth)
              q == rouletteQ(lit.pathThroughput)
              survived == IF rr
                          THEN drawn([lit EXCEPT !.pathThroughput = rouletteRescale(@, q)], 1)
                          ELSE lit
              sampled == drawn(survived, s.draws)
              result ==
                  IF emissiveGate(hd, p)
                  THEN [pc |-> "ret", payload |-> returned([p EXCEPT !.colour = hd.bsdfData])]
                  ELSE IF depthLimitReached(lit.depth)
                          \/ (rr /\ rouletteKill(u, q, lit.depth))
                          \/ pdfInvalid(s.pdf)
                  THEN [pc |-> "ret", payload |-> returned(lit)]
                  ELSE [pc |-> "trace",
                        payload |-> [sampled EXCEPT
                            !.pathThroughput = throughputUpdate(@, s),
                            !.depth = depthUpdate(@),
                            !.flags = specularUpdate(@, s.isSpecular)]]
          IN  gpu' = [gpu EXCEPT
                  !.threads[t] = [pc |-> result.pc, payload |-> result.payload,
                                  reads |-> @.reads \cup {<<"payload", t>>} \cup ReadOnly,
                                  writes |-> @.writes \cup {<<"payload", t>>}]]
    /\ UNCHANGED dispatchVars

\* line 313: all TraceRay calls of the thread have returned
threadWrite(t) ==
    /\ gpu.threads[t].pc = "ret"
    /\ gpu' = [gpu EXCEPT
          !.threads[t].pc = "done",
          !.threads[t].reads = @ \cup {<<"payload", t>>},
          !.threads[t].writes = @ \cup {<<"uav", uavIndex(t)>>},
          !.uav[uavIndex(t)] = [value |-> tmo(gpu.threads[t].payload.colour),
                                writes |-> @.writes + 1]]
    /\ UNCHANGED dispatchVars

PixelsNext ==
    \E t \in Pixels :
        \/ threadRayGeneration(t)
        \/ threadMiss(t)
        \/ threadClosestHit(t)
        \/ threadWrite(t)

PixelsSpec == PixelsInit /\ [][PixelsNext]_vars

\* C19: paths are independent.  In every step of a dispatch one thread
\* acts: the payloads of the other threads and the pixels of the other
\* threads are left as they were, the read-only data is unchanged, the
\* thread's own pixel is written only when its path has returned, with the
\* tone-mapped colour of its own payload, and each pixel has been written
\* exactly once when its thread is done and never before; a thread reads
\* only its payload and read-only data and writes only its payload and its
\* pixel.
C19_PathsIndependent ==
    [][ (\E t \in Pixels :
          /\ \A o \in Pixels \ {t} :
                gpu'.threads[o] = gpu.threads[o] /\ gpu'.uav[o] = gpu.uav[o]
          /\ (gpu'.uav[t] # gpu.uav[t] =>
                /\ gpu.threads[t].pc = "ret"
                /\ gpu'.threads[t].pc = "done"
                /\ gpu'.uav[t].value = tmo(gpu.threads[t].payload.colour))
          /\ \A p \in Pixels :
                /\ gpu'.uav[p].writes = (IF gpu'.threads[p].pc = "done" THEN 1 ELSE 0)
                /\ gpu'.threads[p].reads \subseteq ({<<"payload", p>>} \cup ReadOnly)
                /\ gpu'.threads[p].writes \subseteq {<<"payload", p>>, <<"uav", p>>}
          /\ UNCHANGED <<cb, scene>>)
      ]_vars

\* both threads are done, each pixel written once with its own colour
C19_Witness ==
    /\ \A t \in Pixels : gpu.threads[t].pc = "done" /\ gpu.uav[t].writes = 1
    /\ gpu.uav[<<0, 0>>].value = tmo(V3(Rat(4, 1), Rat(2, 1), One))
    /\ gpu.uav[<<1, 0>>].value = tmo(V3(Half, Half, Half))

(***************************************************************************)
(* Scene loading and the normal transform (loadScene / loadInstance        *)
(* part_003 174-313, Scene::addMesh and Scene::build part_002 392-446,     *)
(* inverse and calculateHitData PT.hlsl 111-137, 218-221)                  *)
(***************************************************************************)
MaxInstances == 2

Row4(a, b, c, d) == <<a, b, c, d>>

\* instance.w of the scene file: identity, uniform scale with a
\* translation, a quarter turn about z, a shear, and two matrices whose
\* linear part is singular (flattening along z, all zero)
InstanceTransforms ==
    { <<Row4(1, 0, 0, 0), Row4(0, 1, 0, 0), Row4(0, 0, 1, 0), Row4(0, 0, 0, 1)>>,
      <<Row4(2, 0, 0, 1), Row4(0, 2, 0, 1), Row4(0, 0, 2, 1), Row4(0, 0, 0, 1)>>,
      <<Row4(0, -1, 0, 0), Row4(1, 0, 0, 0), Row4(0, 0, 1, 0), Row4(0, 0, 0, 1)>>,
      <<Row4(1, 1, 0, 0), Row4(0, 1, 0, 0), Row4(0, 0, 1, 0), Row4(0, 0, 0, 1)>>,
      <<Row4(1, 0, 0, 0), Row4(0, 1, 0, 0), Row4(0, 0, 0, 0), Row4(0, 0, 0, 1)>>,
      <<Row4(0, 0, 0, 0), Row4(0, 0, 0, 0), Row4(0, 0, 0, 0), Row4(0, 0, 0, 1)>> }

\* object-space normals of the vertices
ObjectNormals == {<<1, 0, 0>>, <<0, 0, 1>>}

\* TLASTransform(const Matrix&): the first 12 floats, rows 0..2
TLASTransform(m) == SubSeq(m, 1, 3)

\* (float3x3)ObjectToWorld3x4()
rotationOf(t) == [r \in 1..3 |-> SubSeq(t[r], 1, 3)]

\* det of inverse(float3x3), lines 118-120
determinant(m) ==
    m[1][1] * (m[2][2] * m[3][3] - m[2][3] * m[3][2])
    - m[1][2] * (m[2][1] * m[3][3] - m[2][3] * m[3][1])
    + m[1][3] * (m[2][1] * m[3][2] - m[2][2] * m[3][1])

\* inverse(float3x3), lines 112-137: every cofactor times 1.0f / det
inverse(m) ==
    LET invDet == Rat(1, determinant(m))
        s(x) == RMul(Rat(x, 1), invDet)
    IN  << << s(m[2][2] * m[3][3] - m[2][3] * m[3][2]),
              s(m[1][3] * m[3][2] - m[1][2] * m[3][3]),
              s(m[1][2] * m[2][3] - m[1][3] * m[2][2]) >>,
           << s(m[2][3] * m[3][1] - m[2][1] * m[3][3]),
              s(m[1][1] * m[3][3] - m[1][3] * m[3][1]),
              s(m[1][3] * m[2][1] - m[1][1] * m[2][3]) >>,
           << s(m[2][1] * m[3][2] - m[2][2] * m[3][1]),
              s(m[1][2] * m[3][1] - m[1][1] * m[3][2]),
              s(m[1][1] * m[2][2] - m[1][2] * m[2][1]) >> >>

transpose(m) == [r \in 1..3 |-> [c \in 1..3 |-> m[c][r]]]

\* mul(transform, normal) of line 221, before normalize
transformNormal(t, n) ==
    LET transform == transpose(inverse(rotationOf(t)))
    IN  [r \in 1..3 |->
            RAdd(RAdd(RMul(transform[r][1], Rat(n[1], 1)), RMul(transform[r][2], Rat(n[2], 1))),
                 RMul(transform[r][3], Rat(n[3], 1)))]

NoNormal == [hit |-> FALSE, instance |-> 0, det |-> 0, normal |-> VZero]

SceneInit ==
    /\ scene = [pc |-> "loading", transforms |-> <<>>, tlas |-> <<>>, hitData |-> NoNormal]
    /\ cb = [nLights |-> 0, SPP |-> FirstSPP, useEnvironmentMap |-> 0]
    /\ shortCircuit = TRUE
    /\ pc = "idle"
    /\ idx = Pixel
    /\ payload = initialPayload
    /\ hitData = NoHit
    /\ direct = NoDirect
    /\ roulette = NoRoulette
    /\ bsdfSample = NoSample
    /\ uav = [idx |-> Pixel, value |-> tmo(VZero), written |-> FALSE]
    /\ hits = 0
    /\ level = 0
    /\ reason = "none"
    /\ draws = 0
    /\ prevSpecular = FALSE
    /\ bsdfValue = NoValue
    /\ host = [pc |-> "loadScene"]
    /\ gpu = [pc |-> "idle"]

sceneRest == <<cb, shortCircuit, pc, idx, payload, hitData, direct, roulette, bsdfSample,
               uav, hits, level, reason, draws, prevSpecular, bsdfValue, host, gpu>>

\* loadInstance with StaticModelManager::load and Scene::addMesh: the matrix
\* of the instance is copied as it is
loadInstance ==
    /\ scene.pc = "loading"
    /\ Len(scene.transforms) < MaxInstances
    /\ \E w \in InstanceTransforms :
          scene' = [scene EXCEPT !.transforms = Append(@, TLASTransform(w))]
    /\ UNCHANGED sceneRest

\* Scene::build: the transforms are copied into the instance descriptors
build ==
    /\ scene.pc = "loading"
    /\ scene.transforms # <<>>
    /\ scene' = [scene EXCEPT !.pc = "built", !.tlas = scene.transforms]
    /\ UNCHANGED sceneRest

\* calculateHitData lines 218-221 for a hit on an instance of the built
\* scene (which instances a ray can hit is left open)
hitInstance ==
    /\ scene.pc = "built"
    /\ \E i \in 1..Len(scene.tlas), n \in ObjectNormals :
          scene' = [scene EXCEPT !.hitData =
              [hit |-> TRUE, instance |-> i,
               det |-> determinant(rotationOf(scene.tlas[i])),
               normal |-> transformNormal(scene.tlas[i], n)]]
    /\ UNCHANGED sceneRest

SceneNext ==
    \/ loadInstance
    \/ build
    \/ hitInstance

SceneSpec == SceneInit /\ [][SceneNext]_vars

\* C20: singular instance transforms are rejected at scene-build time.  A
\* built scene holds no instance whose linear part has determinant zero,
\* and the normal transform of a hit is never evaluated on a singular
\* matrix: its determinant is not zero and the transformed normal is
\* finite.
C20_SingularRejected ==
    /\ (scene.pc = "built" =>
          \A i \in 1..Len(scene.tlas) : determinant(rotationOf(scene.tlas[i])) # 0)
    /\ (scene.pc = "built" /\ scene.hitData.hit =>
          /\ scene.hitData.det # 0
          /\ \A c \in 1..3 : IsFinite(scene.hitData.normal[c]))

(***************************************************************************)
(* The sampler as the code computes it (PT.hlsl 256-262, 289).  A uint is  *)
(* a pair <<hi, lo>> of 16-bit halves; every operation is taken mod 2^32.  *)
(***************************************************************************)
TwoTo16 == 65536

Pow2(k) == 2 ^ k

\* x ^ y for 16-bit x, y: bit i of the result is set when exactly one of
\* bit i of x and bit i of y is
BitXor(x, y) ==
    LET upTo[i \in 0..16] ==
            IF i = 0 THEN 0
            ELSE upTo[i - 1]
                 + Pow2(i - 1) * ((((x \div Pow2(i - 1)) % 2) + ((y \div Pow2(i - 1)) % 2)) % 2)
    IN  upTo[16]

\* the uint of a number below 2^31
U32(n) == <<n \div TwoTo16, n % TwoTo16>>

\* (a * b) mod 2^16 and (a * b) div 2^16 for 16-bit a, b, by bytes of a
mulLo16(a, b) == (((((a \div 256) * b) % 256) * 256) + (a % 256) * b) % TwoTo16
mulHi16(a, b) ==
    (((a \div 256) * b) \div 256) + (((((a \div 256) * b) % 256) * 256 + (a % 256) * b) \div TwoTo16)

\* each operation takes its operands by value: p is <<a, b>>
add32(a, b) ==
    CHOOSE r \in {<<(p[1][1] + p[2][1] + ((p[1][2] + p[2][2]) \div TwoTo16)) % TwoTo16,
                    (p[1][2] + p[2][2]) % TwoTo16>> : p \in {<<a, b>>}} : TRUE

mul32(a, b) ==
    CHOOSE r \in {<<(mulHi16(p[1][2], p[2][2]) + mulLo16(p[1][1], p[2][2])
                      + mulLo16(p[1][2], p[2][1])) % TwoTo16,
                    mulLo16(p[1][2], p[2][2])>> : p \in {<<a, b>>}} : TRUE

xor32(a, b) ==
    CHOOSE r \in {<<BitXor(p[1][1], p[2][1]), BitXor(p[1][2], p[2][2])>> : p \in {<<a, b>>}} : TRUE

\* a >> k for 0 <= k <= 31
shr32(a, k) ==
    CHOOSE r \in {IF p[2] >= 16 THEN <<0, p[1][1] \div Pow2(p[2] - 16)>>
                  ELSE <<p[1][1] \div Pow2(p[2]),
                         (p[1][2] \div Pow2(p[2])) + (p[1][1] % Pow2(p[2])) * Pow2(16 - p[2])>>
                  : p \in {<<a, k>>}} : TRUE

\* 747796405u, 2891336453u, 277803737u
lcgMultiplier == <<11410, 30645>>
lcgIncrement == <<44118, 19205>>
outputMultiplier == <<4238, 62169>>

\* line 259: the next state
rndAdvance(state) == add32(mul32(state, lcgMultiplier), lcgIncrement)

\* lines 260-261: the word that is converted, from the advanced state
rndWord(state) ==
    CHOOSE r \in {xor32(shr32(word, 22), word) :
                  word \in {mul32(xor32(shr32(st, (st[1] \div 4096) + 4), st), outputMultiplier) :
                            st \in {state}}} : TRUE

\* the number of bits of n, 0 <= n < 2^30
bitLength(n) == CHOOSE b \in 0..30 : n < Pow2(b)

\* (float)word: 24-bit significand m and exponent e, value m * 2^e, rounded
\* to nearest, ties to even
floatOfWord(w) ==
    CHOOSE r \in
        {[m |-> IF \/ 2 * t.rem > Pow2(t.e)
                   \/ (2 * t.rem = Pow2(t.e) /\ t.m % 2 = 1) THEN t.m + 1 ELSE t.m,
          e |-> t.e] :
         t \in {[e |-> v.e, m |-> (v.w[1] * Pow2(16 - v.e)) + (v.w[2] \div Pow2(v.e)),
                  rem |-> v.w[2] % Pow2(v.e)] :
                 v \in {[w |-> u, e |-> IF u[1] < 256 THEN 0 ELSE bitLength(u[1]) - 8] :
                         u \in {w}}}} : TRUE

\* rnd: the new state and the float returned, value m * 2^e / 2^32
rnd(state) ==
    LET next == rndAdvance(state)
    IN  [state |-> next, value |-> floatOfWord(rndWord(next))]

\* the float is exactly 0, exactly 1, or in between
rndIsZero(v) == v.m = 0
rndIsOne(v) == v.m = 16777216 /\ v.e = 8

\* asuint(SPPf) for the integer-valued float SPPf >= 1 (sign 0, biased
\* exponent, 23 fraction bits)
asuint(f) ==
    CHOOSE r \in
        {<<((127 + t.b) * 128) + (t.frac \div TwoTo16), t.frac % TwoTo16>> :
         t \in {[b |-> b, frac |-> IF b <= 23 THEN (f - Pow2(b)) * Pow2(23 - b)
                                    ELSE (f - Pow2(b)) \div Pow2(b - 23)] :
                 b \in {bitLength(f) - 1}}} : TRUE

\* 0x9e3779b9u, 0x85ebca6bu
seedMulY == <<40503, 31161>>
seedMulSPP == <<34283, 51819>>

\* line 289
seedRndState(xy, SPPf) ==
    xor32(xor32(U32(xy[1]), mul32(U32(xy[2]), seedMulY)), mul32(asuint(SPPf), seedMulSPP))

\* the state after i further rnd calls, i = 0..k
rndStates(state, k) ==
    LET after[i \in 0..k] == IF i = 0 THEN state ELSE rndAdvance(after[i - 1])
    IN  after

\* the next k rnd calls: the state after each and the value it returned
rndStream(state, k) ==
    LET after == rndStates(state, k)
    IN  [i \in 1..k |-> [state |-> after[i], value |-> floatOfWord(rndWord(after[i]))]]

\* the value as the path arithmetic of this model reads it: 0 and 1 exactly,
\* a value in between on the grid j^2/64 (j = 1..7) below it
sampleOf(v) ==
    IF rndIsZero(v) THEN Zero
    ELSE IF rndIsOne(v) THEN One
    ELSE LET j == v.m \div Pow2(29 - v.e)
         IN  IF j = 0 THEN Rat(1, 64) ELSE Rat(j * j, 64)

(***************************************************************************)
(* Two executions of one pixel's path.  Both see the same constant buffer, *)
(* pixel and scene answers; each has its own uninitialised shadow payload  *)
(* and its own result of a light read outside the uploaded lights.         *)
(***************************************************************************)
Runs == 1..2
ReplayPixels == {<<3, 5>>}
ReplaySPPs == {1, 2}

replayPayload(xy, SPPf) ==
    [depth |-> 0, flags |-> 0, colour |-> VZero, pathThroughput |-> VOne,
     rndState |-> seedRndState(xy, SPPf)]

ReplayInit ==
    /\ cb \in [nLights : 0..MaxLights, SPP : ReplaySPPs, useEnvironmentMap : {0, 1}]
    /\ shortCircuit \in BOOLEAN
    /\ (cb.useEnvironmentMap = 1 => shortCircuit)
    /\ pc = "idle"
    /\ idx \in ReplayPixels
    /\ payload = initialPayload
    /\ hitData = NoHit
    /\ direct = NoDirect
    /\ roulette = NoRoulette
    /\ bsdfSample = NoSample
    /\ uav = [idx |-> Pixel, value |-> tmo(VZero), written |-> FALSE]
    /\ hits = 0
    /\ level = 0
    /\ reason = "none"
    /\ draws = 0
    /\ prevSpecular = FALSE
    /\ bsdfValue = NoValue
    /\ host = HostAtRest
    /\ scene = SceneAtRest
    /\ gpu = [pc |-> "idle",
              runs |-> [r \in Runs |->
                  [payload |-> replayPayload(idx, cb.SPP), drawn |-> <<>>,
                   uav |-> tmo(VZero)]]]

replayRest == <<cb, shortCircuit, pc, idx, payload, hitData, direct, roulette, bsdfSample,
                uav, hits, level, reason, draws, prevSpecular, bsdfValue, host, scene>>

\* k further rnd calls on the payload of a run
replayDraw(run, stream, k) ==
    IF k = 0 THEN run
    ELSE [run EXCEPT !.payload.rndState = stream[k].state,
                     !.drawn = @ \o [i \in 1..k |-> stream[i].value]]

\* a ClosestHit invocation makes at most seven rnd calls
MaxDrawsPerHit == 7

\* lines 284-311: payload, two jitter values, primary TraceRay
replayRayGeneration ==
    /\ gpu.pc = "idle"
    /\ \E stream \in {rndStream(seedRndState(idx, cb.SPP), 2)} :
          gpu' = [pc |-> "trace",
                  runs |-> [r \in Runs |->
                      replayDraw([gpu.runs[r] EXCEPT !.payload = replayPayload(idx, cb.SPP)],
                                 stream, 2)]]
    /\ UNCHANGED replayRest

\* Miss for the path ray, the same texel for both executions
replayMiss ==
    /\ gpu.pc = "trace"
    /\ \E env \in EnvTexels(cb.useEnvironmentMap) :
          gpu' = [pc |-> "ret",
                  runs |-> [r \in Runs |->
                      [gpu.runs[r] EXCEPT !.payload = Miss(@, env)]]]
    /\ UNCHANGED replayRest

\* what the uninitialised shadow payload of an execution can hold
ReplayJunk == {j \in UninitPayloads : j.flags \in {0, 251}}

\* the scene answers of one ClosestHit invocation
ReplayAnswers ==
    [kind : {0, 1, 3}, raw : {Rat(-1, 1)}, cosN : {One}, cosL : {One}, dist2 : Dist2s,
     occluded : BOOLEAN, envTexel : EnvTexels(cb.useEnvironmentMap)]

\* the inputs of calculateDirect: the rnd calls of an invocation in program
\* order are the selection of line 548, the light or direction sample, the
\* roulette value and the two values of sampleBSDF
replayInputs(stream, a, junk, garbage) ==
    LET sel == SelectionDraws(cb.useEnvironmentMap, shortCircuit)
    IN  [uSel |-> IF sel = 1 THEN sampleOf(stream[1].value) ELSE Zero,
         uLight |-> sampleOf(stream[sel + 1].value),
         cosN |-> a.cosN, cosL |-> a.cosL, dist2 |-> a.dist2, occluded |-> a.occluded,
         junk |-> junk, envTexel |-> a.envTexel, garbage |-> garbage]

\* lines 590-607: the hit data and the direct lighting of the hit
replayAtHit(stream, a, junk, garbage) ==
    {[hd |-> hd,
      d |-> calculateDirect(hd, cb.useEnvironmentMap, cb.nLights, shortCircuit,
                            replayInputs(stream, a, junk, garbage))] :
     hd \in {calculateHitData(a.kind, VOne, CHOOSE e \in Emissions : TRUE, a.raw)}}

\* lines 608-625: the payload after line 608, whether roulette applies, its
\* q and the number of rnd calls made when sampleBSDF is reached
replayLit(p, t) ==
    [hd |-> t.hd, d |-> t.d,
     lit |-> [p EXCEPT !.colour = VAdd(@, VMul(p.pathThroughput, t.d.value))],
     rr |-> rouletteApplies(p.depth),
     q |-> rouletteQ(p.pathThroughput),
     nr |-> t.d.draws + (IF rouletteApplies(p.depth) THEN 1 ELSE 0)]

\* lines 593-654: how the invocation ends
replayLeave(run, stream, t, s) ==
    IF emissiveGate(t.hd, run.payload)
    THEN [pc |-> "ret", run |-> [run EXCEPT !.payload.colour = t.hd.bsdfData]]
    ELSE IF depthLimitReached(t.lit.depth)
    THEN [pc |-> "ret", run |-> replayDraw([run EXCEPT !.payload = t.lit], stream, t.d.draws)]
    ELSE IF t.rr /\ rouletteKill(sampleOf(stream[t.nr].value), t.q, t.lit.depth)
    THEN [pc |-> "ret", run |-> replayDraw([run EXCEPT !.payload = t.lit], stream, t.nr)]
    ELSE IF pdfInvalid(s.pdf)
    THEN [pc |-> "ret",
          run |-> replayDraw([run EXCEPT !.payload =
                      IF t.rr THEN [t.lit EXCEPT !.pathThroughput = rouletteRescale(@, t.q)]
                      ELSE t.lit], stream, t.nr + s.draws)]
    ELSE [pc |-> "trace",
          run |-> replayDraw([run EXCEPT !.payload =
                      [t.lit EXCEPT
                          !.pathThroughput =
                              throughputUpdate(IF t.rr THEN rouletteRescale(@, t.q) ELSE @, s),
                          !.depth = depthUpdate(@),
                          !.flags = specularUpdate(@, s.isSpecular)]],
                      stream, t.nr + s.draws)]

\* ClosestHit (lines 590-654) of one execution
replayHit(run, stream, a, junk, garbage) ==
    CHOOSE r \in
        {replayLeave(run, stream, w.t, w.s) :
         w \in {[t |-> t,
                  s |-> sampleBSDF(t.hd, sampleOf(stream[t.nr + 1].value),
                                   sampleOf(stream[t.nr + 2].value))] :
                 t \in {replayLit(run.payload, at) :
                         at \in replayAtHit(stream, a, junk, garbage)}}} : TRUE

\* what one execution can be left with: its shadow payload and an
\* out-of-range light read are its own
replayOutcomes(run, stream, a) ==
    {replayHit(run, stream, a, junk, garbage) : junk \in ReplayJunk, garbage \in GarbageLights}

\* both executions run ClosestHit on the same hit
replayClosestHit ==
    /\ gpu.pc = "trace"
    /\ \E a \in ReplayAnswers :
       \E streams \in {[r \in Runs |->
                           rndStream(gpu.runs[r].payload.rndState, MaxDrawsPerHit)]} :
       \E first \in replayOutcomes(gpu.runs[1], streams[1], a),
          second \in replayOutcomes(gpu.runs[2], streams[2], a) :
          gpu' = [pc |-> first.pc, runs |-> <<first.run, second.run>>]
    /\ UNCHANGED replayRest

\* line 313
replayWrite ==
    /\ gpu.pc = "ret"
    /\ gpu' = [pc |-> "done",
               runs |-> [r \in Runs |->
                   [gpu.runs[r] EXCEPT !.uav = tmo(gpu.runs[r].payload.colour)]]]
    /\ UNCHANGED replayRest

ReplayNext ==
    \/ replayRayGeneration
    \/ replayMiss
    \/ replayClosestHit
    \/ replayWrite

ReplaySpec == ReplayInit /\ [][ReplayNext]_vars

\* the two executions stay in step: control flow reads the sampler, the
\* throughput, the depth and the flags, none of which a light read or the
\* shadow payload reaches
ReplayInStep ==
    \A r \in Runs :
        /\ gpu.runs[r].drawn = gpu.runs[1].drawn
        /\ gpu.runs[r].payload.rndState = gpu.runs[1].payload.rndState
        /\ gpu.runs[r].payload.pathThroughput = gpu.runs[1].payload.pathThroughput
        /\ gpu.runs[r].payload.depth = gpu.runs[1].payload.depth
        /\ gpu.runs[r].payload.flags = gpu.runs[1].payload.flags

\* C21: reproducibility from the seed.  Two executions of a pixel's path
\* with the same pixel, SPP and scene answers have drawn the same sampler
\* values in the same order and hold the same colour, whatever their
\* uninitialised shadow payloads held.
C21_Reproducible ==
    \A r \in Runs :
        /\ gpu.runs[r].drawn = gpu.runs[1].drawn
        /\ gpu.runs[r].payload.colour = gpu.runs[1].payload.colour
        /\ gpu.runs[r].uav = gpu.runs[1].uav

(***************************************************************************)
(* Normal orientation in calculateHitData (PT.hlsl 139-147, 218-233)       *)
(***************************************************************************)
VNeg(v) == <<RNeg(v[1]), RNeg(v[2]), RNeg(v[3])>>

\* unit vectors; hitData.normal after line 221 can also be non-finite (the
\* normalize of a zero vector, a singular instance transform)
UnitVectors ==
    {V3(One, Zero, Zero), V3(Rat(-1, 1), Zero, Zero), V3(Zero, One, Zero),
     V3(Zero, Zero, One), V3(Zero, Zero, Rat(-1, 1)), V3(Rat(3, 5), Zero, Rat(4, 5)),
     V3(Rat(-3, 5), Zero, Rat(-4, 5))}
WorldNormals == UnitVectors \cup {V3(NonFinite, NonFinite, NonFinite)}
RayDirections == UnitVectors

\* variant: the normal is turned against the ray for every kind
orientNormalAllKinds(bsdf, normal, rayDirection) ==
    IF RLess(Zero, VDot(normal, rayDirection)) THEN VNeg(normal) ELSE normal

\* lines 227-233
orientNormal(bsdf, normal, rayDirection) ==
    IF isBSDFTwoSided(bsdf) /\ RLess(Zero, VDot(normal, rayDirection))
    THEN VNeg(normal) ELSE normal

NormalInit ==
    /\ scene \in [pc : {"transformed"}, bsdf : Kinds, normal : WorldNormals,
                  rayDirection : RayDirections, hitNormal : {VZero}]
    /\ cb = [nLights |-> 0, SPP |-> FirstSPP, useEnvironmentMap |-> 0]
    /\ shortCircuit = TRUE
    /\ pc = "trace"
    /\ idx = Pixel
    /\ payload = initialPayload
    /\ hitData = NoHit
    /\ direct = NoDirect
    /\ roulette = NoRoulette
    /\ bsdfSample = NoSample
    /\ uav = [idx |-> Pixel, value |-> tmo(VZero), written |-> FALSE]
    /\ hits = 0
    /\ level = 1
    /\ reason = "none"
    /\ draws = 0
    /\ prevSpecular = FALSE
    /\ bsdfValue = NoValue
    /\ host = HostAtRest
    /\ gpu = GpuAtRest

\* calculateHitData from the kind decoded at line 224 to the normal the
\* tangent frame is built from
resolveNormal ==
    /\ scene.pc = "transformed"
    /\ scene' = [scene EXCEPT
          !.pc = "resolved",
          !.hitNormal = orientNormal(scene.bsdf, scene.normal, scene.rayDirection)]
    /\ UNCHANGED sceneRest

NormalNext == resolveNormal

NormalSpec == NormalInit /\ [][NormalNext]_vars

MaxTraceRecursionDepth == 8

\* the deepest TraceRay call in flight: the call that runs the shader of
\* the path, and inside calculateDirect the shadow ray visible() traces
traceNesting == level + (IF direct.asked THEN 1 ELSE 0)

\* C23: trace nesting fits the pipeline limit.  With the primary TraceRay
\* of RayGeneration at level 1, no continuation ray and no shadow ray is
\* ever traced at a nesting depth above MaxTraceRecursionDepth.
C23_NestingFits == traceNesting <= MaxTraceRecursionDepth

\* the limit is met: a shadow ray traced from the ClosestHit of depth 6
C23_Witness ==
    /\ payload.depth = MaxDepth
    /\ level = MaxDepth + 1
    /\ direct.asked
    /\ traceNesting = MaxTraceRecursionDepth

\* the running ClosestHit invocation is on an emitter and was not ended by
\* the gate of lines 596-600
emitterNotGated == hitData.bsdf = 1 /\ pc \in {"direct", "depthcheck", "roulette", "sample", "pdfcheck"}

traceShadowRayOnPath(path, shadow, occluded, env) ==
    [path |-> IF occluded THEN path ELSE Miss(path, env), shadow |-> shadow]

\* line 540: TraceRay with shadowPayload; closest-hit shaders are skipped,
\* the miss shader runs on the payload of the ray
traceShadowRay(path, shadow, occluded, env) ==
    [path |-> path, shadow |-> IF occluded THEN shadow ELSE Miss(shadow, env)]

ShadowInit ==
    /\ gpu = [pc |-> "hit", payload |-> threadPayload(Pixel, FirstSPP),
              shadowPayload |-> CHOOSE j \in UninitPayloads : TRUE, vis |-> FALSE]
    /\ cb = [nLights |-> 0, SPP |-> FirstSPP, useEnvironmentMap |-> 1]
    /\ shortCircuit = TRUE
    /\ pc = "direct"
    /\ idx = Pixel
    /\ payload = initialPayload
    /\ hitData = NoHit
    /\ direct = NoDirect
    /\ roulette = NoRoulette
    /\ bsdfSample = NoSample
    /\ uav = [idx |-> Pixel, value |-> tmo(VZero), written |-> FALSE]
    /\ hits = 1
    /\ level = 1
    /\ reason = "none"
    /\ draws = 0
    /\ prevSpecular = FALSE
    /\ bsdfValue = NoValue
    /\ host = HostAtRest
    /\ scene = SceneAtRest

\* line 526: Payload shadowPayload, not initialised
shadowDeclare ==
    /\ gpu.pc = "hit"
    /\ \E junk \in UninitPayloads :
          gpu' = [gpu EXCEPT !.pc = "declared", !.shadowPayload = junk, !.vis = FALSE]
    /\ UNCHANGED dispatchVars

\* lines 528-529
shadowFlag ==
    /\ gpu.pc = "declared"
    /\ gpu' = [gpu EXCEPT !.pc = "flagged", !.shadowPayload = shadowPayloadOf(@)]
    /\ UNCHANGED dispatchVars

\* line 540
shadowTrace ==
    /\ gpu.pc = "flagged"
    /\ \E occluded \in BOOLEAN, env \in EnvTexels(cb.useEnvironmentMap) :
          LET after == traceShadowRay(gpu.payload, gpu.shadowPayload, occluded, env)
          IN  gpu' = [gpu EXCEPT !.pc = "traced", !.payload = after.path,
                                 !.shadowPayload = after.shadow]
    /\ UNCHANGED dispatchVars

\* line 541
shadowReturn ==
    /\ gpu.pc = "traced"
    /\ gpu' = [gpu EXCEPT !.pc = "returned",
                          !.vis = RLess(Zero, gpu.shadowPayload.pathThroughput[1])]
    /\ UNCHANGED dispatchVars

\* the caller goes on: the direct term is added (line 603), the rnd calls
\* of the bounce are made, and lines 636-644 prepare the next hit
pathContinue ==
    /\ gpu.pc = "returned"
    /\ ~depthLimitReached(gpu.payload.depth)
    /\ \E isSpecular \in BOOLEAN, value \in {VZero, VOne}, n \in 0..2 :
          gpu' = [gpu EXCEPT
              !.pc = "hit",
              !.payload = drawn([@ EXCEPT
                  !.colour = VAdd(@, VMul(gpu.payload.pathThroughput, value)),
                  !.pathThroughput = VScale(@, Half),
                  !.depth = depthUpdate(@),
                  !.flags = specularUpdate(@, isSpecular)], n)]
    /\ UNCHANGED dispatchVars

ShadowNext ==
    \/ shadowDeclare
    \/ shadowFlag
    \/ shadowTrace
    \/ shadowReturn
    \/ pathContinue

ShadowSpec == ShadowInit /\ [][ShadowNext]_vars

\* C25: shadow probes leave the path untouched.  No step of visible()
\* changes the payload of the calling path (colour, pathThroughput, depth,
\* flags, rndState); the payload the shadow ray is traced with has the
\* shadow flag set whatever it held before; the payload of the path never
\* has the shadow flag set.
C25_ShadowLeavesPath ==
    /\ [][(gpu'.pc \in {"declared", "flagged", "traced", "returned"}) =>
            gpu'.payload = gpu.payload]_vars
    /\ [](gpu.pc \in {"flagged", "traced"} => decodeIsShadow(gpu.shadowPayload.flags))
    /\ [](~decodeIsShadow(gpu.payload.flags))

\* a shadow ray that missed, traced from a path that carries the specular
\* flag, with a shadow payload whose junk had the shadow bit clear
C25_Witness ==
    /\ gpu.pc = "returned"
    /\ gpu.vis
    /\ gpu.payload.depth >= 1
    /\ decodeIsSpecular(gpu.payload.flags)
    /\ gpu.shadowPayload.flags = encodeIsShadow(251)
    /\ gpu.payload.colour # VZero

\* C26: area-light reads are in range.  Whenever calculateDirect has taken
\* the area-light branch, nLights >= 1, the index sampleLight chose is in
\* 0..nLights-1, and the pmf 1/nLights is a number.
C26_LightReadInRange ==
    direct.branch = "light" =>
        /\ cb.nLights >= 1
        /\ direct.lightIndex \in 0..(cb.nLights - 1)
        /\ IsFinite(direct.samplePmf)

(***************************************************************************)
(* Material kind encoding (part_002 69-87, part_003 174-263, PT.hlsl 224,  *)
(* 250)                                                                    *)
(***************************************************************************)
\* the value of the material's bsdf property ("" when it has none) and the
\* type loadInstance passes to updateBSDFType for it
BsdfNames == {"", "diffuse", "orennayar", "mirror", "glass", "plastic", "dielectric", "conductor"}

bsdfNumber(name) ==
    CASE name = "diffuse" -> 0
      [] name = "orennayar" -> 2
      [] name = "mirror" -> 3
      [] name = "glass" -> 4
      [] name = "plastic" -> 5
      [] name = "dielectric" -> 6
      [] name = "conductor" -> 7
      [] OTHER -> 0

\* heap offsets Textures::find returns
TextureIDs == {0, 1, 513, 65535}

\* InstanceData::updateBSDFType: bsdfAlbedoID | (type << 16)
updateBSDFType(bsdfAlbedoID, type) == BitOr(bsdfAlbedoID, type * TwoTo16)

\* InstanceData::updatetextureID: bsdfAlbedoID | (ID & 0xFFFF)
updatetextureID(bsdfAlbedoID, ID) == BitOr(bsdfAlbedoID, BitAnd(ID, 65535))

\* loadInstance lines 177-238 in program order: texture id, then diffuse,
\* emission, and the remaining bsdf names
instanceDataOf(material) ==
    LET textured == updatetextureID(0, material.textureID)
        diffuse == IF material.bsdf = "diffuse" THEN updateBSDFType(textured, 0) ELSE textured
        emissive == IF material.emission THEN updateBSDFType(diffuse, 1) ELSE diffuse
    IN  IF material.bsdf \in BsdfNames \ {"", "diffuse"}
        THEN updateBSDFType(emissive, bsdfNumber(material.bsdf))
        ELSE emissive

\* PT.hlsl line 224 and line 250
decodeBSDF(bsdfAlbedoID) == bsdfAlbedoID \div TwoTo16
decodeTextureID(bsdfAlbedoID) == BitAnd(bsdfAlbedoID, 65535)

MaterialInit ==
    /\ scene \in [pc : {"material"},
                  material : [bsdf : BsdfNames, emission : BOOLEAN, textureID : TextureIDs],
                  bsdfAlbedoID : {0}, areaLights : {FALSE}, hit : {[bsdf |-> 0, albedoTexID |-> 0]}]
    /\ cb = [nLights |-> 0, SPP |-> FirstSPP, useEnvironmentMap |-> 0]
    /\ shortCircuit = TRUE
    /\ pc = "idle"
    /\ idx = Pixel
    /\ payload = initialPayload
    /\ hitData = NoHit
    /\ direct = NoDirect
    /\ roulette = NoRoulette
    /\ bsdfSample = NoSample
    /\ uav = [idx |-> Pixel, value |-> tmo(VZero), written |-> FALSE]
    /\ hits = 0
    /\ level = 0
    /\ reason = "none"
    /\ draws = 0
    /\ prevSpecular = FALSE
    /\ bsdfValue = NoValue
    /\ host = [pc |-> "loadScene"]
    /\ gpu = [pc |-> "idle"]

\* loadInstance: the instance data is built, the triangles of an emitting
\* material are added as area lights (lines 253-263)
loadMaterial ==
    /\ scene.pc = "material"
    /\ scene' = [scene EXCEPT !.pc = "loaded",
                              !.bsdfAlbedoID = instanceDataOf(scene.material),
                              !.areaLights = scene.material.emission]
    /\ UNCHANGED sceneRest

\* calculateHitData for a hit on the instance
decodeMaterial ==
    /\ scene.pc = "loaded"
    /\ scene' = [scene EXCEPT !.pc = "decoded",
                              !.hit = [bsdf |-> decodeBSDF(scene.bsdfAlbedoID),
                                       albedoTexID |-> decodeTextureID(scene.bsdfAlbedoID)]]
    /\ UNCHANGED sceneRest

MaterialNext ==
    \/ loadMaterial
    \/ decodeMaterial

MaterialSpec == MaterialInit /\ [][MaterialNext]_vars

\* C27: material kind encoding.  For every instance loadInstance builds, the
\* kind the shader decodes is 1 whenever the material has an emission
\* property and otherwise the number of its bsdf string, and the texture id
\* it decodes is the id that was stored; so an instance whose triangles were
\* added as area lights is shaded as kind 1.
C27_KindEncoding ==
    scene.pc = "decoded" =>
        /\ scene.hit.bsdf =
              IF scene.material.emission THEN 1 ELSE bsdfNumber(scene.material.bsdf)
        /\ scene.hit.albedoTexID = scene.material.textureID
        /\ (scene.areaLights => scene.hit.bsdf = 1)

(***************************************************************************)
(* Scene tables (part_002 329-333, 364-412; part_003 93-129).  Every       *)
(* element is tagged with the call that supplied it and the mesh of the    *)
(* model it belongs to.                                                    *)
(***************************************************************************)
MaxCalls == 3

\* the static models: the number of meshes of each
ModelMeshes == [a |-> 1, b |-> 2]
ModelNames == {"a", "b"}
TableTransforms == {"w1", "w2"}
TableInstanceData == {"d1", "d2"}

TablesInit ==
    /\ scene = [meshes |-> <<>>, transforms |-> <<>>, instanceData |-> <<>>, calls |-> 0]
    /\ cb = [nLights |-> 0, SPP |-> FirstSPP, useEnvironmentMap |-> 0]
    /\ shortCircuit = TRUE
    /\ pc = "idle"
    /\ idx = Pixel
    /\ payload = initialPayload
    /\ hitData = NoHit
    /\ direct = NoDirect
    /\ roulette = NoRoulette
    /\ bsdfSample = NoSample
    /\ uav = [idx |-> Pixel, value |-> tmo(VZero), written |-> FALSE]
    /\ hits = 0
    /\ level = 0
    /\ reason = "none"
    /\ draws = 0
    /\ prevSpecular = FALSE
    /\ bsdfValue = NoValue
    /\ host = [pc |-> "loadScene"]
    /\ gpu = [pc |-> "idle"]

\* Scene::addMesh
addMeshTo(s, mesh, w, tag) ==
    [s EXCEPT !.meshes = Append(@, [mesh |-> mesh, tag |-> tag]),
              !.transforms = Append(@, [w |-> w, tag |-> tag])]

\* Scene::addInstance
addInstanceTo(s, data, tag) ==
    [s EXCEPT !.instanceData = Append(@, [data |-> data, tag |-> tag])]

\* the loop of StaticModelManager::load over meshes i..n of the model
RECURSIVE loadMeshes(_, _, _, _, _, _)
loadMeshes(s, model, i, data, w, call) ==
    IF i > ModelMeshes[model] THEN s
    ELSE loadMeshes(addMeshTo(addInstanceTo(s, data, <<call, i>>), <<model, i>>, w, <<call, i>>),
                    model, i + 1, data, w, call)

\* the loop of StaticModel::updateWorld
RECURSIVE updateWorldMeshes(_, _, _, _, _)
updateWorldMeshes(s, model, i, w, call) ==
    IF i > ModelMeshes[model] THEN s
    ELSE updateWorldMeshes(addMeshTo(s, <<model, i>>, w, <<call, i>>), model, i + 1, w, call)

called(s) == [s EXCEPT !.calls = @ + 1]

\* Scene::reset
sceneReset ==
    /\ scene.calls < MaxCalls
    /\ scene' = called([scene EXCEPT !.meshes = <<>>])
    /\ UNCHANGED sceneRest

sceneAddMesh ==
    /\ scene.calls < MaxCalls
    /\ \E model \in ModelNames, w \in TableTransforms :
          scene' = called(addMeshTo(scene, <<model, 1>>, w, <<scene.calls + 1, 1>>))
    /\ UNCHANGED sceneRest

sceneAddInstance ==
    /\ scene.calls < MaxCalls
    /\ \E data \in TableInstanceData :
          scene' = called(addInstanceTo(scene, data, <<scene.calls + 1, 1>>))
    /\ UNCHANGED sceneRest

modelUpdateWorld ==
    /\ scene.calls < MaxCalls
    /\ \E model \in ModelNames, w \in TableTransforms :
          scene' = called(updateWorldMeshes(scene, model, 1, w, scene.calls + 1))
    /\ UNCHANGED sceneRest

managerLoad ==
    /\ scene.calls < MaxCalls
    /\ \E model \in ModelNames, data \in TableInstanceData, w \in TableTransforms :
          scene' = called(loadMeshes(scene, model, 1, data, w, scene.calls + 1))
    /\ UNCHANGED sceneRest

TablesNext ==
    \/ sceneReset
    \/ sceneAddMesh
    \/ sceneAddInstance
    \/ modelUpdateWorld
    \/ managerLoad

TablesSpec == TablesInit /\ [][TablesNext]_vars

\* what Scene::build and the shader rely on
tablesAligned ==
    /\ Len(scene.transforms) = Len(scene.meshes)
    /\ Len(scene.instanceData) = Len(scene.meshes)
    /\ \A i \in 1..Len(scene.meshes) :
          /\ scene.transforms[i].tag = scene.meshes[i].tag
          /\ scene.instanceData[i].tag = scene.meshes[i].tag

\* C28: scene tables stay index-aligned.  After any sequence of
\* Scene::reset, Scene::addMesh, Scene::addInstance,
\* StaticModel::updateWorld and StaticModelManager::load calls, meshes,
\* transforms and instanceData have equal length and transforms[i] and
\* instanceData[i] are what was supplied for meshes[i].
C28_TablesAligned == tablesAligned

(***************************************************************************)
(* What the open command list holds when DispatchRays is recorded          *)
(* (part_000 145-169, Shaders.h 122-145, 383-399, 524-535, part_003        *)
(* 739-769, part_002 467-483).  host.list is the sequence of commands      *)
(* recorded since the last Reset of the list.                              *)
(***************************************************************************)
CameraPoses == {"c1", "c2"}

BindInit ==
    /\ host = [pc |-> "input", frames |-> 0, SPP |-> 0, camera |-> "c1",
               buffer |-> [camera |-> "c1", SPP |-> 0], dirty |-> 1, list |-> <<>>,
               apply |-> 0, dispatched |-> <<>>]
    /\ gpu = [cbResource |-> [camera |-> "c1", SPP |-> 0]]
    /\ cb = [nLights |-> 0, SPP |-> FirstSPP, useEnvironmentMap |-> 0]
    /\ shortCircuit = TRUE
    /\ pc = "idle"
    /\ idx = Pixel
    /\ payload = initialPayload
    /\ hitData = NoHit
    /\ direct = NoDirect
    /\ roulette = NoRoulette
    /\ bsdfSample = NoSample
    /\ uav = [idx |-> Pixel, value |-> tmo(VZero), written |-> FALSE]
    /\ hits = 0
    /\ level = 0
    /\ reason = "none"
    /\ draws = 0
    /\ prevSpecular = FALSE
    /\ bsdfValue = NoValue
    /\ scene = SceneAtRest

bindRest == <<cb, shortCircuit, pc, idx, payload, hitData, direct, roulette, bsdfSample,
              uav, hits, level, reason, draws, prevSpecular, bsdfValue, scene>>

\* WinMain 107-143: the camera moves or stays, SPP is reset when it moves
bindInput ==
    /\ host.pc = "input"
    /\ host.frames < MaxFrames
    /\ \E camera \in CameraPoses :
          host' = [host EXCEPT !.camera = camera,
                               !.SPP = IF camera # host.camera THEN 0 ELSE @,
                               !.pc = "beginFrame"]
    /\ UNCHANGED <<gpu, bindRest>>

\* Core::beginFrame: the list is reset
bindBeginFrame ==
    /\ host.pc = "beginFrame"
    /\ host' = [host EXCEPT !.list = <<>>, !.frames = @ + 1, !.apply = 0, !.pc = "update"]
    /\ UNCHANGED <<gpu, bindRest>>

\* WinMain 149-158 with ConstantBuffer::update: the CPU copy is written and
\* marked dirty
bindUpdateConstant ==
    /\ host.pc = "update"
    /\ host' = [host EXCEPT !.SPP = @ + 1,
                            !.buffer = [camera |-> host.camera, SPP |-> host.SPP + 1],
                            !.dirty = 1, !.pc = "apply"]
    /\ UNCHANGED <<gpu, bindRest>>

\* Shaders::apply line 531
applyRootSignature ==
    /\ host.pc = "apply"
    /\ host' = [host EXCEPT !.list = Append(@, "SetComputeRootSignature"),
                            !.apply = @ + 1, !.pc = "upload"]
    /\ UNCHANGED <<gpu, bindRest>>

\* variant: every call uploads
uploadedAlways(dirty) == 1

\* ConstantBuffer::upload: 1 when the buffer was dirty
uploaded(dirty) == IF dirty = 1 THEN 1 ELSE 0

\* RTShader::upload: the buffer is copied when dirty, the view is recorded,
\* and after an upload the list is closed, executed, waited for and reset
applyUpload ==
    /\ host.pc = "upload"
    /\ LET n == uploaded(host.dirty)
           list == Append(host.list, "SetComputeRootConstantBufferView")
       IN  /\ gpu' = IF host.dirty = 1 THEN [gpu EXCEPT !.cbResource = host.buffer] ELSE gpu
           /\ host' = [host EXCEPT !.dirty = 0,
                                   !.list = IF n > 0 THEN <<>> ELSE list,
                                   !.pc = "applyTail"]
    /\ UNCHANGED bindRest

\* Shaders::apply lines 533-534
applyTail ==
    /\ host.pc = "applyTail"
    /\ host' = [host EXCEPT
          !.list = @ \o <<"SetComputeRootSignature", "SetPipelineState1">>,
          !.pc = IF host.apply = 1 THEN "bindRTUAV" ELSE "draw"]
    /\ UNCHANGED <<gpu, bindRest>>

\* Core::bindRTUAV, then the second Shaders::apply
bindBindRTUAV ==
    /\ host.pc = "bindRTUAV"
    /\ host' = [host EXCEPT
          !.list = @ \o <<"SetDescriptorHeaps", "SetComputeRootDescriptorTable(0)",
                          "SetComputeRootDescriptorTable(3)">>,
          !.pc = "apply"]
    /\ UNCHANGED <<gpu, bindRest>>

\* Scene::draw: the list as it is when DispatchRays is recorded is kept in
\* host.dispatched
bindDraw ==
    /\ host.pc = "draw"
    /\ LET list == host.list \o <<"SetComputeRootShaderResourceView",
                                  "SetComputeRootDescriptorTable(8)">>
       IN  host' = [host EXCEPT !.dispatched = list, !.list = Append(list, "DispatchRays"),
                                !.pc = "finishFrame"]
    /\ UNCHANGED <<gpu, bindRest>>

\* Core::finishFrame: copy, close, execute, wait, present
bindFinishFrame ==
    /\ host.pc = "finishFrame"
    /\ host' = [host EXCEPT !.list = Append(@, "CopyResource"), !.pc = "input"]
    /\ UNCHANGED <<gpu, bindRest>>

BindNext ==
    \/ bindInput
    \/ bindBeginFrame
    \/ bindUpdateConstant
    \/ applyRootSignature
    \/ applyUpload
    \/ applyTail
    \/ bindBindRTUAV
    \/ bindDraw
    \/ bindFinishFrame

BindSpec == BindInit /\ [][BindNext]_vars

\* the command is in the list, after the first SetComputeRootSignature
recordedUnderRootSignature(list, command) ==
    \E i \in 1..Len(list), j \in 1..Len(list) :
        i < j /\ list[i] = "SetComputeRootSignature" /\ list[j] = command

\* C29: bindings are live at dispatch.  Whenever Scene::draw records
\* DispatchRays, the open list holds, recorded after its most recent Reset,
\* the compute root signature, the pipeline state, the descriptor heap with
\* the UAV and texture tables and the constant-buffer view, and the
\* constant buffer holds the camera and SPP of this frame; the first apply
\* of the frame resets the list, the second does not.
C29_BindingsLive ==
    /\ [][host.pc = "draw" =>
          /\ \A command \in {"SetComputeRootConstantBufferView",
                             "SetComputeRootDescriptorTable(0)",
                             "SetComputeRootDescriptorTable(3)"} :
                recordedUnderRootSignature(host'.dispatched, command)
          /\ \E i \in 1..Len(host'.dispatched) : host'.dispatched[i] = "SetPipelineState1"
          /\ \E i \in 1..Len(host'.dispatched) : host'.dispatched[i] = "SetDescriptorHeaps"
          /\ gpu.cbResource = [camera |-> host.camera, SPP |-> host.SPP]
      ]_vars
    /\ [][host.pc = "upload" =>
            IF host.apply = 1
            THEN host.dirty = 1 /\ host'.list = <<>>
            ELSE host.dirty = 0 /\ host'.list = Append(host.list, "SetComputeRootConstantBufferView")
         ]_vars

\* DispatchRays was recorded in a frame whose first apply reset the list
C29_Witness ==
    /\ host.pc = "finishFrame"
    /\ host.frames = 2
    /\ host.list[Len(host.list)] = "DispatchRays"
    /\ host.list[1] = "SetComputeRootSignature"
    /\ host.camera = "c2"

(***************************************************************************)
(* Input handling and the sample counter (part_000 105-158, Window.h       *)
(* 91-102, 204-213, Camera).  The camera stands on a grid; its heading     *)
(* turns in quarter turns per mouse count, its pitch in steps.             *)
(***************************************************************************)
MaxIterations == 2

MoveKeys == {"W", "S", "A", "D"}
MouseCounts == {-1, 0, 1}

\* Camera::forward and Cross(forward, up) for the four headings
forwardOf(heading) ==
    CASE heading = 0 -> <<0, 1>> [] heading = 1 -> <<1, 0>>
      [] heading = 2 -> <<0, -1>> [] OTHER -> <<-1, 0>>
rightOf(heading) == forwardOf((heading + 1) % 4)

moveBy(camera, step, sign) ==
    [camera EXCEPT !.position = <<@[1] + sign * step[1], @[2] + sign * step[2]>>]

\* Camera::updateLookDirection(dx, dy, 0.001f)
updateLookDirection(camera, dx, dy) ==
    [camera EXCEPT !.pitch = @ + dy, !.heading = (@ + dx + 4) % 4]

\* WinMain 111-139 on the camera, in program order
handleMoveKeys(camera, keys) ==
    LET w == IF "W" \in keys THEN moveBy(camera, forwardOf(camera.heading), 1) ELSE camera
        s == IF "S" \in keys THEN moveBy(w, forwardOf(w.heading), -1) ELSE w
        a == IF "A" \in keys THEN moveBy(s, rightOf(s.heading), -1) ELSE s
    IN  IF "D" \in keys THEN moveBy(a, rightOf(a.heading), 1) ELSE a

handleCamera(camera, keys, button, dx, dy) ==
    IF button THEN updateLookDirection(handleMoveKeys(camera, keys), dx, dy)
    ELSE handleMoveKeys(camera, keys)

\* WinMain 111-139 on the counter: SPP = 0 in every branch taken
resetsSPP(camera, keys, button, dx, dy) == keys \cap MoveKeys # {} \/ button

InputInit ==
    /\ host = [pc |-> "checkInput", frames |-> 0, SPP |-> 0, previous |-> 0, wasReset |-> FALSE,
               keys |-> {}, button |-> FALSE, mousedx |-> 0, mousedy |-> 0,
               camera |-> [position |-> <<0, 0>>, heading |-> 0, pitch |-> 0],
               before |-> [position |-> <<0, 0>>, heading |-> 0, pitch |-> 0]]
    /\ gpu = GpuAtRest
    /\ cb = [nLights |-> 0, SPP |-> FirstSPP, useEnvironmentMap |-> 0]
    /\ shortCircuit = TRUE
    /\ pc = "idle"
    /\ idx = Pixel
    /\ payload = initialPayload
    /\ hitData = NoHit
    /\ direct = NoDirect
    /\ roulette = NoRoulette
    /\ bsdfSample = NoSample
    /\ uav = [idx |-> Pixel, value |-> tmo(VZero), written |-> FALSE]
    /\ hits = 0
    /\ level = 0
    /\ reason = "none"
    /\ draws = 0
    /\ prevSpecular = FALSE
    /\ bsdfValue = NoValue
    /\ scene = SceneAtRest

\* Window::checkInput: the mouse deltas are cleared, then the message pump
\* runs realWndProc on the raw input that arrived: key and button states
\* change with their events, the deltas are those of the last mouse event
inputCheckInput ==
    /\ host.pc = "checkInput"
    /\ host.frames < MaxIterations
    /\ \E keys \in SUBSET MoveKeys, button \in BOOLEAN, dx \in MouseCounts, dy \in MouseCounts :
          host' = [host EXCEPT !.keys = keys, !.button = button, !.mousedx = dx,
                               !.mousedy = dy, !.pc = "handle"]
    /\ UNCHANGED <<gpu, bindRest>>

\* WinMain 111-139
inputHandle ==
    /\ host.pc = "handle"
    /\ host' = [host EXCEPT
          !.before = host.camera,
          !.camera = handleCamera(@, host.keys, host.button, host.mousedx, host.mousedy),
          !.wasReset = resetsSPP(host.camera, host.keys, host.button, host.mousedx, host.mousedy),
          !.previous = host.SPP,
          !.SPP = IF resetsSPP(host.camera, host.keys, host.button, host.mousedx, host.mousedy)
                  THEN 0 ELSE @,
          !.pc = "render"]
    /\ UNCHANGED <<gpu, bindRest>>

\* WinMain 146-169: SPP++ and the frame
inputRender ==
    /\ host.pc = "render"
    /\ host' = [host EXCEPT !.SPP = @ + 1, !.frames = @ + 1, !.pc = "checkInput"]
    /\ UNCHANGED <<gpu, bindRest>>

InputNext ==
    \/ inputCheckInput
    \/ inputHandle
    \/ inputRender

InputSpec == InputInit /\ [][InputNext]_vars

\* C30: no spurious restart.  In an iteration in which the camera is the
\* same after input handling as before it (no W/S/A/D key down, no mouse
\* movement) the sample counter is not reset, and the frame is rendered
\* with SPP one greater than the previous frame's.
C30_NoSpuriousRestart ==
    [][(/\ host.pc = "render"
        /\ host.camera = host.before
        /\ host.keys \cap MoveKeys = {}
        /\ host.mousedx = 0 /\ host.mousedy = 0) =>
           ~host.wasReset /\ host'.SPP = host.previous + 1]_vars

=============================================================================
